---- MODULE Spec2Model ----
(***************************************************************************)
(* Trade-event relay of the trade-tracker backend.                         *)
(*                                                                         *)
(*   HTTP mutation handler --sendMessage--> topic 'trade-events'           *)
(*        --eachMessage--> store adapter (db.service) --> Prisma tables    *)
(*                                                                         *)
(* A request to the trades API is served in steps: it arrives, the         *)
(* middleware has looked its user up and the handler runs to its           *)
(* producer.send, the broker fails or appends the message, the             *)
(* acknowledgement arrives and the handler answers.  Other requests and    *)
(* the consumer run between the steps.  The consumer is modelled one       *)
(* database call at a time, because its retries, a process kill and a      *)
(* redelivery can happen between any two calls.                            *)
(*                                                                         *)
(* Four specifications share the state:                                    *)
(*   Spec       the consumer and the store on a topic any producer writes  *)
(*   SpecApi    server startup and the mutation handlers with sendMessage  *)
(*   SpecHttp   server startup and the trades router in front of handlers  *)
(*   SpecRelay  handlers, broker, consumer and store together              *)
(***************************************************************************)
EXTENDS Integers, Sequences, FiniteSets, TLC

(***************************************************************************)
(* Bounds of the model                                                     *)
(***************************************************************************)
\* longest topic log that is explored
MaxLog == 2
\* longest run of failed broker sends that is explored for one sendMessage
MaxSendFaults == 5
\* seconds the clock is followed for, before and after a token's lifetime
MaxSeconds == 1
\* messages on the partitioned topic
MaxPublished == 3

(***************************************************************************)
(* Program constants                                                       *)
(***************************************************************************)
\* sendMessage: retry(..., { retries: 3 })
SendRetries == 3
\* connectProducer: retry(..., { retries: 5 })
ConnectRetries == 5
\* eachMessage: retry(..., { retries: 3 })
ApplyRetries == 3
\* db.service: retry(..., { retries: 3 })
DbRetries == 3
\* retries of the connect-and-subscribe retry of startConsumer
ConsumerConnectRetries == 5

(***************************************************************************)
(* Values                                                                  *)
(***************************************************************************)
\* JavaScript undefined, for string-valued and for number-valued places
Undef == "undefined"
NoNum == -1
\* a value that is not a number where a number is expected (e.g. 'invalid')
BadNum == -2
NoDate == <<"undefined", 0>>

Ids == {"t1", "t2"}
\* rows of the Account table; LiveTrade.accountId references it
Accounts == {"a1"}
EventTypes == {"TradeCreated", "TradeUpdated", "TradeDeleted", "TradeClosed"}
\* new Date() in the create handler
Now == 1

AsDate(t) == <<"Date", t>>
AsIso(t) == <<"iso", t>>

\* the trade payload of an envelope: every key an envelope can carry
EmptyTrade ==
  [id |-> Undef, accountId |-> Undef, symbol |-> Undef, entryPrice |-> NoNum,
   tradeType |-> Undef, size |-> Undef, qty |-> NoNum, slPercentage |-> NoNum,
   entryDate |-> NoDate, exitPrice |-> NoNum, fees |-> NoNum]

(***************************************************************************)
(* Event codec: JSON.stringify on the producer side, JSON.parse on the     *)
(* consumer side                                                           *)
(***************************************************************************)
\* JSON.stringify(message): keys holding undefined are dropped, a Date
\* becomes its ISO string
Encode(env) ==
  [raw |-> "json", event |-> env.event, hasTrade |-> TRUE,
   trade |-> [env.trade EXCEPT !.entryDate =
                 IF @[1] = "Date" THEN AsIso(@[2]) ELSE @]]

\* JSON.parse(message.value?.toString() || '{}'); "SyntaxError" when the
\* bytes are not JSON
Decode(m) ==
  IF m.raw = "text" THEN [event |-> Undef, hasTrade |-> FALSE, trade |-> EmptyTrade, ok |-> FALSE]
  ELSE IF m.raw = "null" THEN [event |-> Undef, hasTrade |-> FALSE, trade |-> EmptyTrade, ok |-> TRUE]
  ELSE [event |-> m.event, hasTrade |-> m.hasTrade, trade |-> m.trade, ok |-> TRUE]

(***************************************************************************)
(* The retry wrapper (async-retry) as the three call sites configure it:   *)
(* one first attempt plus `retries` further attempts; the promise resolves *)
(* with the first attempt that succeeds and rejects, once the attempts are *)
(* used up, with the error that occurred most often (the later one on a    *)
(* tie)                                                                    *)
(***************************************************************************)
OK == "ok"

RECURSIVE MainErrorFrom(_, _, _, _)
MainErrorFrom(errors, i, main, mainCount) ==
  IF i > Len(errors) THEN main
  ELSE LET count == Cardinality({j \in 1..i : errors[j] = errors[i]})
       IN IF count >= mainCount
          THEN MainErrorFrom(errors, i + 1, errors[i], count)
          ELSE MainErrorFrom(errors, i + 1, main, mainCount)

MainError(errors) == MainErrorFrom(errors, 1, "", 0)

\* a retry loop that makes one attempt more
RECURSIVE RetryLoopOneMore(_, _, _)
RetryLoopOneMore(outs, n, retries) ==
  IF outs[n] = OK
  THEN [resolved |-> TRUE, attempts |-> n, okSends |-> 1, error |-> ""]
  ELSE IF n >= retries + 2
       THEN [resolved |-> FALSE, attempts |-> n, okSends |-> 0,
             error |-> MainError(SubSeq(outs, 1, n))]
       ELSE RetryLoopOneMore(outs, n + 1, retries)

\* outs[n] is what attempt n meets: OK or the error it throws
RECURSIVE RetryLoop(_, _, _)
RetryLoop(outs, n, retries) ==
  IF outs[n] = OK
  THEN [resolved |-> TRUE, attempts |-> n, okSends |-> 1, error |-> ""]
  ELSE IF n >= retries + 1
       THEN [resolved |-> FALSE, attempts |-> n, okSends |-> 0,
             error |-> MainError(SubSeq(outs, 1, n))]
       ELSE RetryLoop(outs, n + 1, retries)

(***************************************************************************)
(* Relay producer                                                          *)
(***************************************************************************)
BrokerErrors == {"broker unavailable", "request timed out"}

\* the broker's answers to the successive producer.send calls of one
\* sendMessage: the first nFail fail with errs[1..nFail], later ones succeed
BrokerAnswers(nFail, errs) ==
  [i \in 1..(MaxSendFaults + 1) |-> IF i <= nFail THEN errs[i] ELSE OK]

\* the broker accepts every producer.send
AllOk == [i \in 1..(MaxSendFaults + 1) |-> OK]

\* a sendMessage that retries once only
SendMessageRetryOnce(outs) ==
  LET r == RetryLoop(outs, 1, 1)
  IN [resolved |-> r.resolved, attempts |-> r.attempts, okSends |-> r.okSends,
      error |-> r.error, span |-> IF r.resolved THEN "OK" ELSE "ERROR"]

\* sendMessage(topic, message): the outcome of the retried producer.send and
\* the span status set on it
SendMessage(outs) ==
  LET r == RetryLoop(outs, 1, SendRetries)
  IN [resolved |-> r.resolved, attempts |-> r.attempts, okSends |-> r.okSends,
      error |-> r.error, span |-> IF r.resolved THEN "OK" ELSE "ERROR"]

\* a startServer that does not wait for connectProducer before it listens
startServerNoAwait(srv, ok) ==
  [state |-> "listening",
   producer |-> IF ok THEN "connected" ELSE "disconnected",
   connectN |-> 0]

\* startServer(): await connectProducer(); app.listen(PORT), one
\* producer.connect call at a time.  ok: the broker accepts the connection.
\* When the call fails the retry of connectProducer makes the next one until
\* its attempts are used up; then connectProducer rethrows and startServer
\* rejects before app.listen
startServer(srv, ok) ==
  IF ok
  THEN [state |-> "listening", producer |-> "connected", connectN |-> 0]
  ELSE IF srv.connectN < ConnectRetries + 1
       THEN [srv EXCEPT !.connectN = @ + 1]
       ELSE [srv EXCEPT !.state = "failed"]

(***************************************************************************)
(* Request schemas (zod).  parse() keeps the keys of the schema only.      *)
(***************************************************************************)
TradeTypes == {"Initial", "Free Roll", "Reduced", "Added"}
TradeSizes == {"Qtr 6.25%", "Half 12.50%", "Full 25%", "2X Full 50%"}

StripToLive(body) ==
  [EmptyTrade EXCEPT !.accountId = body.accountId, !.symbol = body.symbol,
                     !.entryPrice = body.entryPrice, !.tradeType = body.tradeType,
                     !.size = body.size, !.qty = body.qty,
                     !.slPercentage = body.slPercentage]

\* liveTradeSchema
liveTradeSchema(body) ==
  /\ body.accountId # Undef
  /\ body.symbol \notin {Undef, ""}
  /\ body.entryPrice > 0
  /\ body.tradeType \in TradeTypes
  /\ body.size \in TradeSizes
  /\ body.qty > 0
  /\ body.slPercentage >= 1 /\ body.slPercentage <= 8

\* updateLiveTradeSchema = liveTradeSchema.partial()
updateLiveTradeSchema(body) ==
  /\ body.symbol # ""
  /\ body.entryPrice = NoNum \/ body.entryPrice > 0
  /\ body.tradeType \in TradeTypes \cup {Undef}
  /\ body.size \in TradeSizes \cup {Undef}
  /\ body.qty = NoNum \/ body.qty > 0
  /\ body.slPercentage = NoNum \/ (body.slPercentage >= 1 /\ body.slPercentage <= 8)

\* closeTradeSchema
closeTradeSchema(body) ==
  /\ body.exitPrice > 0
  /\ body.fees = NoNum \/ body.fees >= 0

\* request bodies that are explored
ValidLiveBody ==
  [EmptyTrade EXCEPT !.accountId = "a1", !.symbol = "AAPL", !.entryPrice = 150,
                     !.tradeType = "Initial", !.size = "Full 25%", !.qty = 10,
                     !.slPercentage = 4]
CreateBodies == {ValidLiveBody, [EmptyTrade EXCEPT !.symbol = "AAPL"]}
UpdateBodies == {EmptyTrade, [EmptyTrade EXCEPT !.entryPrice = 160],
                 [EmptyTrade EXCEPT !.entryPrice = BadNum],
                 [EmptyTrade EXCEPT !.exitPrice = BadNum]}
CloseBodies == {[EmptyTrade EXCEPT !.exitPrice = 160, !.fees = 5],
                [EmptyTrade EXCEPT !.exitPrice = 160],
                [EmptyTrade EXCEPT !.exitPrice = BadNum, !.fees = BadNum]}

(***************************************************************************)
(* Envelopes the command emitters build                                    *)
(***************************************************************************)
\* { event: 'TradeCreated', trade: { id, ...data, entryDate: new Date() } }
TradeCreatedEnvelope(id, data) ==
  [event |-> "TradeCreated",
   trade |-> [data EXCEPT !.id = id, !.entryDate = AsDate(Now)]]

\* { event: 'TradeUpdated', trade: { id, ...data } }
TradeUpdatedEnvelope(id, data) ==
  [event |-> "TradeUpdated", trade |-> [data EXCEPT !.id = id]]

\* { event: 'TradeDeleted', trade: { id } }
TradeDeletedEnvelope(id) ==
  [event |-> "TradeDeleted", trade |-> [EmptyTrade EXCEPT !.id = id]]

\* { event: 'TradeClosed', trade: { id, exitPrice, fees } }
TradeClosedEnvelope(id, exitPrice, fees) ==
  [event |-> "TradeClosed",
   trade |-> [EmptyTrade EXCEPT !.id = id, !.exitPrice = exitPrice, !.fees = fees]]

(***************************************************************************)
(* Trade store: the Prisma calls of db.service on the LiveTrade and        *)
(* ClosedTrade tables.  A table is a function from the ids of its rows to  *)
(* the rows.  Each operator gives the error of the call ("" for none) and  *)
(* the table after it.  The exitDate, createdAt and updatedAt columns are  *)
(* left out.                                                               *)
(***************************************************************************)
\* @default(uuid()) of the id columns: an id that no row of the table has
Uuids == <<"uuid1", "uuid2", "uuid3">>
StoreUuid(liveT) ==
  LET free == {i \in 1..Len(Uuids) : Uuids[i] \notin DOMAIN liveT}
  IN Uuids[CHOOSE i \in free : \A j \in free : i <= j]

IsNum(x) == x >= 0
IsStr(x) == x # Undef

\* prisma.liveTrade.create({ data }) at a time: id and entryDate have
\* defaults (uuid(), now()), createdAt is @default(now()) and updatedAt is
\* @updatedAt
LiveTradeCreate(liveT, data, time) ==
  LET id == IF data.id = Undef THEN StoreUuid(liveT) ELSE data.id
      row == [id |-> id, accountId |-> data.accountId, symbol |-> data.symbol,
              entryPrice |-> data.entryPrice, tradeType |-> data.tradeType,
              size |-> data.size, qty |-> data.qty,
              slPercentage |-> data.slPercentage,
              entryDate |-> IF data.entryDate = NoDate THEN AsDate(time)
                            ELSE AsDate(data.entryDate[2]),
              createdAt |-> AsDate(time), updatedAt |-> AsDate(time)]
      err == IF ~(/\ IsStr(data.accountId) /\ IsStr(data.symbol)
                  /\ IsNum(data.entryPrice) /\ IsStr(data.tradeType)
                  /\ IsStr(data.size) /\ IsNum(data.qty)
                  /\ IsNum(data.slPercentage))
             THEN "PrismaClientValidationError"
             ELSE IF id \in DOMAIN liveT THEN "P2002"
             ELSE IF data.accountId \notin Accounts THEN "P2003"
             ELSE ""
  IN [err |-> err,
      table |-> IF err = "" THEN [k \in DOMAIN liveT \cup {id} |->
                                    IF k = id THEN row ELSE liveT[k]]
                ELSE liveT]

\* an update that writes every column of data, absent ones too
LiveTradeUpdateAll(liveT, id, data, time) ==
  LET err == IF id = Undef \/ BadNum \in {data.entryPrice, data.qty, data.slPercentage}
             THEN "PrismaClientValidationError"
             ELSE IF id \notin DOMAIN liveT THEN "P2025"
             ELSE ""
  IN [err |-> err,
      table |-> IF err = ""
                THEN [liveT EXCEPT ![id] =
                       [@ EXCEPT !.symbol = data.symbol,
                                 !.entryPrice = data.entryPrice,
                                 !.tradeType = data.tradeType,
                                 !.size = data.size,
                                 !.qty = data.qty,
                                 !.slPercentage = data.slPercentage,
                                 !.updatedAt = AsDate(time)]]
                ELSE liveT]

\* prisma.liveTrade.update({ where: { id }, data }) at a time: a key
\* holding undefined is dropped and leaves its column alone; updatedAt is
\* @updatedAt, so an update that writes a column sets it to the time of the
\* update, and one whose data holds no column writes nothing
LiveTradeUpdate(liveT, id, data, time) ==
  LET err == IF id = Undef \/ BadNum \in {data.entryPrice, data.qty, data.slPercentage}
             THEN "PrismaClientValidationError"
             ELSE IF id \notin DOMAIN liveT THEN "P2025"
             ELSE ""
      Put(old, new, absent) == IF new = absent THEN old ELSE new
      writes == \/ {data.symbol, data.tradeType, data.size} # {Undef}
                \/ {data.entryPrice, data.qty, data.slPercentage} # {NoNum}
  IN [err |-> err,
      table |-> IF err = ""
                THEN [liveT EXCEPT ![id] =
                       [@ EXCEPT !.symbol = Put(@, data.symbol, Undef),
                                 !.entryPrice = Put(@, data.entryPrice, NoNum),
                                 !.tradeType = Put(@, data.tradeType, Undef),
                                 !.size = Put(@, data.size, Undef),
                                 !.qty = Put(@, data.qty, NoNum),
                                 !.slPercentage = Put(@, data.slPercentage, NoNum),
                                 !.updatedAt = IF writes THEN AsDate(time) ELSE @]]
                ELSE liveT]

\* prisma.liveTrade.delete({ where: { id } })
LiveTradeDelete(liveT, id) ==
  LET err == IF id = Undef THEN "PrismaClientValidationError"
             ELSE IF id \notin DOMAIN liveT THEN "P2025"
             ELSE ""
  IN [err |-> err,
      table |-> IF err = "" THEN [k \in DOMAIN liveT \ {id} |-> liveT[k]] ELSE liveT]

\* a realizedPL that leaves the fees out
RealizedPLGross(liveTrade, exitPrice, fees) ==
  (exitPrice - liveTrade.entryPrice) * liveTrade.qty

\* (exitPrice - liveTrade.entryPrice) * liveTrade.qty - (fees || 0)
RealizedPL(liveTrade, exitPrice, fees) ==
  (exitPrice - liveTrade.entryPrice) * liveTrade.qty - (IF fees = NoNum THEN 0 ELSE fees)

\* the data closeLiveTrade passes to prisma.closedTrade.create
ClosedTradeData(id, liveTrade, exitPrice, fees) ==
  [id |-> id, accountId |-> liveTrade.accountId, symbol |-> liveTrade.symbol,
   entryPrice |-> liveTrade.entryPrice, tradeType |-> liveTrade.tradeType,
   size |-> liveTrade.size, qty |-> liveTrade.qty,
   entryDate |-> liveTrade.entryDate, exitPrice |-> exitPrice, fees |-> fees,
   realizedPL |-> RealizedPL(liveTrade, exitPrice, fees)]

\* prisma.closedTrade.create({ data }) at a time: exitDate and createdAt
\* are @default(now()), updatedAt is @updatedAt
ClosedTradeCreate(closedT, data, time) ==
  LET err == IF ~IsNum(data.exitPrice) \/ data.fees = BadNum
             THEN "PrismaClientValidationError"
             ELSE IF data.id \in DOMAIN closedT THEN "P2002"
             ELSE ""
      row == [id |-> data.id, accountId |-> data.accountId, symbol |-> data.symbol,
              entryPrice |-> data.entryPrice, tradeType |-> data.tradeType,
              size |-> data.size, qty |-> data.qty, entryDate |-> data.entryDate,
              exitPrice |-> data.exitPrice, fees |-> data.fees,
              createdAt |-> AsDate(time), updatedAt |-> AsDate(time),
              realizedPL |-> data.realizedPL, exitDate |-> AsDate(time)]
  IN [err |-> err,
      table |-> IF err = "" THEN [k \in DOMAIN closedT \cup {data.id} |->
                                    IF k = data.id THEN row ELSE closedT[k]]
                ELSE closedT]

(***************************************************************************)
(* State                                                                   *)
(***************************************************************************)
VARIABLES
  topic,      \* the log of topic 'trade-events' (one partition): message values
  live,       \* table LiveTrade
  closed,     \* table ClosedTrade
  pos,        \* consumer: offset of the message eachMessage is given next
  committed,  \* consumer group: committed offset (where a restart resumes)
  cpc,        \* consumer: "idle", "attempt" (about to run the retried switch),
              \* "closeCreate" (closeLiveTrade between its two calls),
              \* "thrown" (eachMessage rejected), "killed" (process gone)
  outerN,     \* attempt number of eachMessage's retry
  innerN,     \* attempt number of the db.service retry
  held,       \* closeLiveTrade: the row liveTrade.delete returned
  span,       \* status of the span of the delivery: "UNSET", "OK", "ERROR"
  deliv,      \* observation of the delivery in progress or just ended:
              \* redelivered: an earlier delivery of the offset was applied;
              \* faulted: the database left a call of the delivery unanswered
  applied,    \* offsets for which a store adapter operation has resolved
  resp,       \* the HTTP response to the request of the observed client:
              \* none while the request is being served
  sent,       \* the sendMessage call of that request
  pending,    \* the requests to the trades API that are being served: the
              \* request, the id drawn for a trade it creates, the errors its
              \* producer.send or findMany calls have met, what the database
              \* answered its query with, and how far it has come
  server,     \* the HTTP server process: state "starting", "listening" or
              \* "failed", the producer's connection, and the attempt number
              \* of connectProducer's retry (0 once it has resolved)
  req,        \* the request of the observed client, once it is answered:
              \* route, :id, body (or query), jwt cookie, req.user as
              \* authenticateJWT set it, and the findMany calls made for it
  users,      \* table User
  accounts,   \* table Account
  refreshTokens, \* table RefreshToken
  clock,      \* Date.now(), in milliseconds
  authReq,    \* the last request that came through the auth router
  authRes,    \* its response: status, json body, cookies set and cleared
  revoked,    \* the refreshToken cookie of the last request that logout answered
  flight,     \* requests to the auth router that are being served: what each
              \* has read, how far it has come and how it ended
  consumer,   \* the consumer process: state "stopped" (startConsumer has not
              \* resolved), "running" (consumer.run was called) or "failed",
              \* the attempt number of its connect-and-subscribe retry (0 once
              \* it has resolved) and what the attempt that resolved achieved
  call,       \* the last retried call that was observed from its first
              \* attempt to its end: the call site, what the attempts met,
              \* the waits between them and how it ended
  parts       \* topic 'trade-events' with several partitions: the logs, the
              \* consumer's offsets and the order in which messages were applied

storeVars == <<live, closed>>
consumerVars == <<pos, committed, cpc, outerN, innerN, held, span, deliv, applied>>
apiVars == <<resp, sent, pending>>
authVars == <<users, accounts, refreshTokens, clock, authReq, authRes, revoked, flight>>
vars == <<topic, live, closed, pos, committed, cpc, outerN, innerN, held, span,
          deliv, applied, resp, sent, pending, server, req, authVars, consumer, call, parts>>

NoRow ==
  [id |-> Undef, accountId |-> Undef, symbol |-> Undef, entryPrice |-> NoNum,
   tradeType |-> Undef, size |-> Undef, qty |-> NoNum, slPercentage |-> NoNum,
   entryDate |-> NoDate, createdAt |-> NoDate, updatedAt |-> NoDate]

NoDelivery ==
  [offset |-> 0, outcome |-> "None", adapterOk |-> 0, dbCalls |-> 0,
   liveAtStart |-> FALSE, closedAtStart |-> FALSE, redelivered |-> FALSE,
   faulted |-> FALSE]

NoResponse == [trade |-> EmptyTrade, error |-> "", handler |-> "none", status |-> 0,
               trades |-> {}]
\* no jwt cookie on the request
NoJwt == [jwt |-> "none", userId |-> Undef]
NoRequest == [id |-> Undef, body |-> EmptyTrade, route |-> "none", cookie |-> NoJwt,
              user |-> Undef, reads |-> 0]
\* no token: a cookie that is absent from a request or that a response did
\* not set
NoToken == [userId |-> Undef, iat |-> -1, exp |-> -1]
NoCookies == [jwt |-> NoToken, refreshToken |-> NoToken]
NoAccountBody == [name |-> Undef, startingBalance |-> NoNum]
NoAuthBody == [email |-> Undef, password |-> Undef, account |-> NoAccountBody]
NoAuthRequest == [body |-> NoAuthBody, route |-> "none", user |-> Undef,
                  cookies |-> NoCookies]
NoAuthResponse == [accountId |-> Undef, error |-> "", status |-> 0, userId |-> Undef,
                   cookie |-> NoCookies, message |-> "", clearCookie |-> {}]
ConsumerStopped == [state |-> "stopped", connected |-> FALSE, connectN |-> 1,
                    subscribed |-> FALSE]
NoCall == [outs |-> <<>>, resolved |-> FALSE, attempts |-> 0, error |-> "",
           site |-> "none", waits |-> <<>>, lastError |-> "", run |-> FALSE]
Partitions == {"p0", "p1"}
NoParts == [count |-> 0, logs |-> [p \in Partitions |-> <<>>],
            offsets |-> [p \in Partitions |-> 1], order |-> <<>>]
Slots == {1, 2, 3}
NoFlight == [body |-> NoAuthBody, status |-> 0, route |-> "none", user |-> Undef,
             cookies |-> NoCookies, phase |-> "idle", raced |-> FALSE, alive |-> FALSE,
             now |-> 0, storedExpiresAt |-> 0]
\* the clients of the trades API: the one whose request and response are
\* recorded in req, resp and sent, and another one
Observed == "observed"
Callers == {Observed, "other"}
NotStarted == [state |-> "starting", producer |-> "disconnected", connectN |-> 1]
NoSend == [resolved |-> FALSE, attempts |-> 0, okSends |-> 0, error |-> "",
           span |-> "UNSET", called |-> FALSE, fails |-> 0, enqueued |-> 0]

\* what a handler has come to: its response, its sendMessage call, the
\* findMany calls made and the messages published
NoResult == [resp |-> NoResponse, sent |-> NoSend, reads |-> 0, published |-> <<>>]
NoPending == [errs |-> <<>>, phase |-> "idle", q |-> NoRequest, tid |-> Undef,
              got |-> NoResult]

Init ==
  /\ topic = <<>>
  /\ live = <<>>
  /\ closed = <<>>
  /\ pos = 1
  /\ committed = 1
  /\ cpc = "idle"
  /\ outerN = 1
  /\ innerN = 1
  /\ held = NoRow
  /\ span = "UNSET"
  /\ deliv = NoDelivery
  /\ applied = {}
  /\ resp = NoResponse
  /\ sent = NoSend
  /\ pending = [c \in Callers |-> NoPending]
  /\ server = NotStarted
  /\ req = NoRequest
  /\ users = {}
  /\ accounts = {}
  /\ refreshTokens = {}
  /\ clock = 0
  /\ authReq = NoAuthRequest
  /\ authRes = NoAuthResponse
  /\ revoked = NoToken
  /\ flight = [s \in Slots |-> NoFlight]
  /\ consumer = ConsumerStopped
  /\ call = NoCall
  /\ parts = NoParts

(***************************************************************************)
(* Relay consumer: startConsumer's eachMessage                             *)
(***************************************************************************)
\* const data = JSON.parse(...) of the message being processed
\* what one attempt of startConsumer's retry meets: connect and subscribe
\* both succeed, connect throws, or subscribe throws after connect succeeded
ConnectOutcomes == {OK, "connect failed", "subscribe failed"}

\* a startConsumer that calls consumer.run whatever its retry met
startConsumerRunAnyway(c, out) ==
  [state |-> "running", connected |-> out # "connect failed", connectN |-> 0,
   subscribed |-> out = OK]

\* startConsumer(), one attempt of its retry at a time: consumer.connect()
\* and consumer.subscribe() in one attempt; when either throws the retry
\* makes the next attempt until its attempts are used up, then
\* startConsumer rejects; consumer.run is called once the retry resolved
startConsumer(c, out) ==
  IF out = OK
  THEN [state |-> "running", connected |-> TRUE, connectN |-> 0, subscribed |-> TRUE]
  ELSE IF c.connectN < ConsumerConnectRetries + 1
       THEN [c EXCEPT !.connectN = @ + 1, !.connected = out # "connect failed"]
       ELSE [c EXCEPT !.state = "failed", !.connected = out # "connect failed"]

\* consumer.ts: startConsumer() in a process of its own
StartConsumer(out) ==
  /\ consumer.state = "stopped"
  /\ consumer' = startConsumer(consumer, out)
  /\ UNCHANGED <<topic, live, closed, pos, committed, cpc, outerN, innerN, held, span,
                 deliv, applied, resp, sent, pending, server, req, authVars, call, parts>>

(***************************************************************************)
(* The retried calls with their backoff.  async-retry waits, before retry  *)
(* k, Math.round(random * minTimeout * factor^(k-1)) ms with random drawn  *)
(* from [1, 2) (randomize is on unless the options turn it off, and none   *)
(* of the call sites does)                                                 *)
(***************************************************************************)
\* the two ends of the random factor: 1 and (after rounding) 2
Randoms == {1, 2}

\* a backoff that waits minTimeout before every retry
TimeoutFlat(minTimeout, factor, k, random) == random * minTimeout

\* the wait before retry k
Timeout(minTimeout, factor, k, random) == random * minTimeout * (factor ^ (k - 1))

\* retry(fn, { retries, minTimeout, factor }) at one call site.  outs[n] is
\* what attempt n meets, randoms[k] the random factor of the wait before
\* retry k.  lastError is what the last attempt threw; run: the call
\* returned and startConsumer went on to consumer.run
Retried(site, outs, randoms, retries, minTimeout, factor) ==
  LET r == RetryLoop(outs, 1, retries)
  IN [outs |-> outs, resolved |-> r.resolved, attempts |-> r.attempts,
      error |-> r.error, site |-> site,
      waits |-> [k \in 1..(r.attempts - 1) |->
                   Timeout(minTimeout, factor, k, randoms[k])],
      lastError |-> IF r.resolved THEN "" ELSE outs[r.attempts],
      run |-> site = "startConsumer" /\ r.resolved]

\* connectProducer(): the retried producer.connect()
ConnectProducerCall ==
  /\ call.site = "none"
  /\ \E outs \in [1..(ConnectRetries + 1) -> {OK} \cup BrokerErrors],
        randoms \in [1..(ConnectRetries) -> Randoms] :
        call' = Retried("connectProducer", outs, randoms, ConnectRetries, 1000, 2)
  /\ UNCHANGED <<topic, live, closed, pos, committed, cpc, outerN, innerN, held, span,
                 deliv, applied, resp, sent, pending, server, req, authVars, consumer, parts>>

\* startConsumer(): the retried consumer.connect() and consumer.subscribe()
StartConsumerCall ==
  /\ call.site = "none"
  /\ \E outs \in [1..(ConsumerConnectRetries + 1) -> ConnectOutcomes],
        randoms \in [1..(ConsumerConnectRetries) -> Randoms] :
        call' = Retried("startConsumer", outs, randoms, ConsumerConnectRetries, 1000, 2)
  /\ UNCHANGED <<topic, live, closed, pos, committed, cpc, outerN, innerN, held, span,
                 deliv, applied, resp, sent, pending, server, req, authVars, consumer, parts>>

\* sendMessage(topic, message): the retried producer.send()
SendMessageCall ==
  /\ call.site = "none"
  /\ \E outs \in [1..(SendRetries + 1) -> {OK} \cup BrokerErrors],
        randoms \in [1..(SendRetries) -> Randoms] :
        call' = Retried("sendMessage", outs, randoms, SendRetries, 500, 2)
  /\ UNCHANGED <<topic, live, closed, pos, committed, cpc, outerN, innerN, held, span,
                 deliv, applied, resp, sent, pending, server, req, authVars, consumer, parts>>

data == Decode(topic[pos])

\* a read loop that hands the next message to eachMessage while the call
\* for the message before it has not returned
ReceiveEarly ==
  /\ consumer.state = "running"
  /\ cpc \in {"idle", "attempt"}
  /\ LET p == IF cpc = "attempt" THEN pos + 1 ELSE pos
     IN /\ p <= Len(topic)
        /\ pos' = p
        /\ deliv' = [offset |-> p, outcome |-> "Pending", adapterOk |-> 0,
                     dbCalls |-> 0,
                     liveAtStart |-> Decode(topic[p]).trade.id \in DOMAIN live,
                     closedAtStart |-> Decode(topic[p]).trade.id \in DOMAIN closed,
                     redelivered |-> p \in applied, faulted |-> FALSE]
  /\ cpc' = "attempt"
  /\ span' = "UNSET"
  /\ outerN' = 1
  /\ innerN' = 1
  /\ held' = NoRow
  /\ UNCHANGED <<topic, live, closed, committed, applied, resp, sent, pending, server, req, authVars, consumer, call, parts>>

\* eachMessage is given the next message of the partition: parse it and
\* start the span; a value that is not JSON throws before the span exists
Receive ==
  /\ consumer.state = "running"
  /\ cpc = "idle"
  /\ pos <= Len(topic)
  /\ outerN' = 1
  /\ innerN' = 1
  /\ held' = NoRow
  /\ LET d == [offset |-> pos, outcome |-> "Pending", adapterOk |-> 0, dbCalls |-> 0,
               liveAtStart |-> data.trade.id \in DOMAIN live,
               closedAtStart |-> data.trade.id \in DOMAIN closed,
               redelivered |-> pos \in applied, faulted |-> FALSE]
     IN IF data.ok
        THEN /\ cpc' = "attempt"
             /\ span' = "UNSET"
             /\ deliv' = d
        ELSE /\ cpc' = "thrown"
             /\ span' = "UNSET"
             /\ deliv' = [d EXCEPT !.outcome = "Failed"]
  /\ UNCHANGED <<topic, live, closed, pos, committed, applied, resp, sent, pending, server, req, authVars, consumer, call, parts>>

\* the retry of eachMessage resolved: span OK, eachMessage returns and the
\* read loop moves to the next offset
Resolve(d) ==
  /\ span' = "OK"
  /\ cpc' = "idle"
  /\ pos' = pos + 1
  /\ deliv' = [d EXCEPT !.outcome = "Applied"]
  /\ UNCHANGED <<outerN, innerN>>

\* the catch block logging the error and returning instead of throwing
RethrowSkip(d) ==
  /\ cpc' = "idle"
  /\ span' = "ERROR"
  /\ pos' = pos + 1
  /\ deliv' = [d EXCEPT !.outcome = "Failed"]
  /\ UNCHANGED <<innerN, outerN>>

\* the catch block of eachMessage: span ERROR, throw error; the read loop
\* does not get past the message
Rethrow(d) ==
  /\ cpc' = "thrown"
  /\ span' = "ERROR"
  /\ pos' = pos
  /\ deliv' = [d EXCEPT !.outcome = "Failed"]
  /\ UNCHANGED <<innerN, outerN>>

\* retries that do not count their attempts
RejectUncounted(inDb, d) ==
  /\ cpc' = "attempt"
  /\ UNCHANGED <<pos, outerN, innerN, span, deliv>>

\* retries that make one attempt more before they give up
RejectOneMore(inDb, d) ==
  IF inDb /\ innerN < DbRetries + 2
  THEN /\ cpc' = "attempt"
       /\ innerN' = innerN + 1
       /\ UNCHANGED <<pos, outerN, span>>
       /\ deliv' = d
  ELSE IF outerN < ApplyRetries + 2
  THEN /\ cpc' = "attempt"
       /\ innerN' = 1
       /\ outerN' = outerN + 1
       /\ UNCHANGED <<pos, span>>
       /\ deliv' = d
  ELSE Rethrow(d)

\* a retry that treats the failure of its last attempt as a result
RejectSwallow(inDb, d) ==
  IF inDb /\ innerN < DbRetries + 1
  THEN /\ cpc' = "attempt"
       /\ innerN' = innerN + 1
       /\ UNCHANGED <<pos, outerN, span>>
       /\ deliv' = d
  ELSE IF outerN < ApplyRetries + 1
  THEN /\ cpc' = "attempt"
       /\ innerN' = 1
       /\ outerN' = outerN + 1
       /\ UNCHANGED <<pos, span>>
       /\ deliv' = d
  ELSE Resolve(d)

\* an attempt threw.  inDb: the throw is inside the db.service retry, which
\* runs its function again until its attempts are used up; then (or when the
\* throw is in the switch itself) the retry of eachMessage runs the switch
\* again until its attempts are used up; then the catch block
Reject(inDb, d) ==
  IF inDb /\ innerN < DbRetries + 1
  THEN /\ cpc' = "attempt"
       /\ innerN' = innerN + 1
       /\ UNCHANGED <<pos, outerN, span>>
       /\ deliv' = d
  ELSE IF outerN < ApplyRetries + 1
  THEN /\ cpc' = "attempt"
       /\ innerN' = 1
       /\ outerN' = outerN + 1
       /\ UNCHANGED <<pos, span>>
       /\ deliv' = d
  ELSE Rethrow(d)

DbCalled(d) == [d EXCEPT !.dbCalls = @ + 1]
AdapterResolved(d) == [d EXCEPT !.adapterOk = @ + 1]
\* the call failed because the database did not answer it
Faulted(d, dbFault) == [d EXCEPT !.faulted = @ \/ dbFault]

\* switch (data.event) with no matching case: the retried function returns
NoCase ==
  /\ cpc = "attempt"
  /\ data.event \notin EventTypes
  /\ Resolve(deliv)
  /\ UNCHANGED <<topic, live, closed, committed, held, applied, resp, sent, pending, server, req, authVars, consumer, call, parts>>

\* data.trade is undefined: data.trade.id throws a TypeError in the switch;
\* for TradeCreated, trade.id throws inside createLiveTrade's retried function
NoTrade ==
  /\ cpc = "attempt"
  /\ data.event \in EventTypes
  /\ ~data.hasTrade
  /\ Reject(data.event = "TradeCreated", deliv)
  /\ UNCHANGED <<topic, live, closed, committed, held, applied, resp, sent, pending, server, req, authVars, consumer, call, parts>>

\* case 'TradeCreated': createLiveTrade(data.trade), one prisma call;
\* dbFault: the database does not answer this call
ApplyCreate(dbFault) ==
  /\ cpc = "attempt"
  /\ data.event = "TradeCreated"
  /\ data.hasTrade
  /\ LET r == LiveTradeCreate(live, data.trade, clock)
     IN IF ~dbFault /\ r.err = ""
        THEN /\ live' = r.table
             /\ applied' = applied \cup {pos}
             /\ Resolve(AdapterResolved(DbCalled(deliv)))
        ELSE /\ UNCHANGED <<live, applied>>
             /\ Reject(TRUE, Faulted(DbCalled(deliv), dbFault))
  /\ UNCHANGED <<topic, closed, committed, held, resp, sent, pending, server, req, authVars, consumer, call, parts>>

\* case 'TradeUpdated': updateLiveTrade(data.trade.id, data.trade)
ApplyUpdate(dbFault) ==
  /\ cpc = "attempt"
  /\ data.event = "TradeUpdated"
  /\ data.hasTrade
  /\ LET r == LiveTradeUpdate(live, data.trade.id, data.trade, clock)
     IN IF ~dbFault /\ r.err = ""
        THEN /\ live' = r.table
             /\ applied' = applied \cup {pos}
             /\ Resolve(AdapterResolved(DbCalled(deliv)))
        ELSE /\ UNCHANGED <<live, applied>>
             /\ Reject(TRUE, Faulted(DbCalled(deliv), dbFault))
  /\ UNCHANGED <<topic, closed, committed, held, resp, sent, pending, server, req, authVars, consumer, call, parts>>

\* case 'TradeDeleted': deleteLiveTrade(data.trade.id)
ApplyDelete(dbFault) ==
  /\ cpc = "attempt"
  /\ data.event = "TradeDeleted"
  /\ data.hasTrade
  /\ LET r == LiveTradeDelete(live, data.trade.id)
     IN IF ~dbFault /\ r.err = ""
        THEN /\ live' = r.table
             /\ applied' = applied \cup {pos}
             /\ Resolve(AdapterResolved(DbCalled(deliv)))
        ELSE /\ UNCHANGED <<live, applied>>
             /\ Reject(TRUE, Faulted(DbCalled(deliv), dbFault))
  /\ UNCHANGED <<topic, closed, committed, held, resp, sent, pending, server, req, authVars, consumer, call, parts>>

\* case 'TradeClosed': closeLiveTrade, first call: prisma.liveTrade.delete
ApplyCloseDelete(dbFault) ==
  /\ cpc = "attempt"
  /\ data.event = "TradeClosed"
  /\ data.hasTrade
  /\ LET r == LiveTradeDelete(live, data.trade.id)
     IN IF ~dbFault /\ r.err = ""
        THEN /\ live' = r.table
             /\ held' = live[data.trade.id]
             /\ cpc' = "closeCreate"
             /\ deliv' = DbCalled(deliv)
             /\ UNCHANGED <<pos, outerN, innerN, span>>
        ELSE /\ UNCHANGED <<live, held>>
             /\ Reject(TRUE, Faulted(DbCalled(deliv), dbFault))
  /\ UNCHANGED <<topic, closed, committed, applied, resp, sent, pending, server, req, authVars, consumer, call, parts>>

\* closeLiveTrade, second call: prisma.closedTrade.create
ApplyCloseCreate(dbFault) ==
  /\ cpc = "closeCreate"
  /\ LET r == ClosedTradeCreate(closed,
                ClosedTradeData(data.trade.id, held, data.trade.exitPrice, data.trade.fees),
                clock)
     IN IF ~dbFault /\ r.err = ""
        THEN /\ closed' = r.table
             /\ applied' = applied \cup {pos}
             /\ Resolve(AdapterResolved(DbCalled(deliv)))
        ELSE /\ UNCHANGED <<closed, applied>>
             /\ Reject(TRUE, Faulted(DbCalled(deliv), dbFault))
  /\ held' = NoRow
  /\ UNCHANGED <<topic, live, committed, resp, sent, pending, server, req, authVars, consumer, call, parts>>

\* the consumer group commits the offsets of the messages eachMessage
\* returned for
Commit ==
  /\ cpc = "idle"
  /\ committed < pos
  /\ committed' = pos
  /\ UNCHANGED <<topic, live, closed, pos, cpc, outerN, innerN, held, span, deliv,
                 applied, resp, sent, pending, server, req, authVars, consumer, call, parts>>

\* the consumer process is stopped at any point
Kill ==
  /\ consumer.state = "running"
  /\ cpc \in {"idle", "attempt", "closeCreate"}
  /\ cpc' = "killed"
  /\ UNCHANGED <<topic, live, closed, pos, committed, outerN, innerN, held, span,
                 deliv, applied, resp, sent, pending, server, req, authVars, consumer, call, parts>>

\* the consumer is started again and resumes from the committed offset
Restart ==
  /\ cpc \in {"thrown", "killed"}
  /\ cpc' = "idle"
  /\ pos' = committed
  /\ outerN' = 1
  /\ innerN' = 1
  /\ held' = NoRow
  /\ UNCHANGED <<topic, live, closed, committed, span, deliv, applied, resp, sent, pending, server, req, authVars, consumer, call, parts>>

(***************************************************************************)
(* Command emitters: the mutation handlers of trade.controller.  Each      *)
(* gives, for the answers of the broker to its producer.send calls, the    *)
(* response it sends, the sendMessage call it made and the messages the    *)
(* broker appended for it.                                                 *)
(***************************************************************************)
CREATED == 201
HTTP_OK == 200
NO_CONTENT == 204
BAD_REQUEST == 400

\* the catch block: res.status(BAD_REQUEST).json({ error: error.message })
ErrorResponse(handler, message) ==
  [trade |-> EmptyTrade, error |-> message, handler |-> handler, status |-> BAD_REQUEST,
   trades |-> {}]

\* a handler that responds without looking at the outcome of sendMessage
AfterSendUnchecked(handler, okStatus, body, s) ==
  [trade |-> body, error |-> "", handler |-> handler, status |-> okStatus,
   trades |-> {}]

\* await sendMessage(...); res.status(okStatus)...  or the catch block
AfterSend(handler, okStatus, body, s) ==
  IF s.resolved
  THEN [trade |-> body, error |-> "", handler |-> handler, status |-> okStatus,
        trades |-> {}]
  ELSE ErrorResponse(handler, s.error)

\* how many producer.send calls the broker fails before it accepts one
LeadingFails(outs) ==
  IF \A i \in DOMAIN outs : outs[i] # OK THEN Len(outs)
  ELSE (CHOOSE i \in DOMAIN outs : outs[i] = OK /\ \A j \in 1..(i - 1) : outs[j] # OK) - 1

\* what is observed of one sendMessage call: its result, the broker's
\* behaviour it met and the number of messages the broker appended for it
Sent(s, outs, published) ==
  [resolved |-> s.resolved, attempts |-> s.attempts, okSends |-> s.okSends,
   error |-> s.error, span |-> s.span, called |-> TRUE,
   fails |-> LeadingFails(outs), enqueued |-> Len(published)]

\* the handler after its input passed validation: publish env, then respond
Emit(handler, okStatus, body, env, outs) ==
  LET s == SendMessage(outs)
      published == IF s.okSends = 1 THEN <<Encode(env)>> ELSE <<>>
  IN [resp |-> AfterSend(handler, okStatus, body, s),
      sent |-> Sent(s, outs, published),
      reads |-> 0,
      published |-> published]

\* a handler that calls sendMessage before it validates
InvalidAfterSend(handler) ==
  [resp |-> ErrorResponse(handler, "ZodError"),
   sent |-> [NoSend EXCEPT !.called = TRUE], reads |-> 0, published |-> <<>>]

\* schema.parse(req.body) throws: the catch block answers, nothing is sent
Invalid(handler) ==
  [resp |-> ErrorResponse(handler, "ZodError"), sent |-> NoSend, reads |-> 0,
   published |-> <<>>]

\* id: the value of Math.random().toString(36).substring(2)
createLiveTrade(body, id, outs) ==
  IF ~liveTradeSchema(body) THEN Invalid("createLiveTrade")
  ELSE LET env == TradeCreatedEnvelope(id, StripToLive(body))
       IN Emit("createLiveTrade", CREATED, env.trade, env, outs)

updateLiveTrade(id, body, outs) ==
  IF ~updateLiveTradeSchema(body) THEN Invalid("updateLiveTrade")
  ELSE LET env == TradeUpdatedEnvelope(id, StripToLive(body))
       IN Emit("updateLiveTrade", HTTP_OK, env.trade, env, outs)

deleteLiveTrade(id, outs) ==
  Emit("deleteLiveTrade", NO_CONTENT, EmptyTrade, TradeDeletedEnvelope(id), outs)

closeLiveTrade(id, body, outs) ==
  IF ~closeTradeSchema(body) THEN Invalid("closeLiveTrade")
  ELSE Emit("closeLiveTrade", HTTP_OK, EmptyTrade,
            TradeClosedEnvelope(id, body.exitPrice, body.fees), outs)

\* ids that no TradeCreated message of the topic carries and that no request
\* being served has drawn: Math.random() does not give an id twice
FreshIds ==
  Ids \ ({topic[i].trade.id : i \in {j \in 1..Len(topic) : topic[j].event = "TradeCreated"}}
           \cup {pending[c].tid : c \in Callers})

\* the entry point of the server process: startServer(), up to its next
\* producer.connect call
StartServer ==
  /\ server.state = "starting"
  /\ \E ok \in BOOLEAN : server' = startServer(server, ok)
  /\ UNCHANGED <<topic, live, closed, pos, committed, cpc, outerN, innerN, held, span,
                 deliv, applied, resp, sent, pending, req, authVars, consumer, call, parts>>

\* the request as it arrives
Req(route, id, body, cookie) ==
  [NoRequest EXCEPT !.id = id, !.body = body, !.route = route, !.cookie = cookie]

\* the handler of the route of request p.q, run with the broker answering
\* its producer.send calls as outs says
Handled(p, outs) ==
  IF p.q.route = "POST /live" THEN createLiveTrade(p.q.body, p.tid, outs)
  ELSE IF p.q.route = "PUT /live/:id" THEN updateLiveTrade(p.q.id, p.q.body, outs)
  ELSE IF p.q.route = "DELETE /live/:id" THEN deleteLiveTrade(p.q.id, outs)
  ELSE closeLiveTrade(p.q.id, p.q.body, outs)

\* what the handler of request p has come to when its producer.send calls
\* have met the errors p.errs and the broker accepts the next one
Outcome(p) == Handled(p, BrokerAnswers(Len(p.errs), p.errs))

\* client c can send a request: the server takes requests once app.listen
\* has been called; the topic has room for the message of every request
\* that is being served
Room(c) ==
  /\ server.state = "listening"
  /\ pending[c].phase = "idle"
  /\ Len(topic) + Cardinality({o \in Callers : pending[o].phase \in {"auth", "send"}})
       < MaxLog

\* the request of client c is being served: nothing is recorded of it yet
Unanswered(c) ==
  IF c = Observed
  THEN req' = NoRequest /\ resp' = NoResponse /\ sent' = NoSend
  ELSE UNCHANGED <<req, resp, sent>>

\* the response of r is written to request q of client c
Respond(c, q, r) ==
  IF c = Observed
  THEN req' = [q EXCEPT !.reads = r.reads] /\ resp' = r.resp /\ sent' = r.sent
  ELSE UNCHANGED <<req, resp, sent>>

\* a mutation handler is given request q and runs up to its first await: a
\* body that fails the schema is answered by the catch block, else
\* sendMessage is called and makes its first producer.send
Handle(c, q, tid) ==
  LET p == [NoPending EXCEPT !.q = q, !.tid = tid, !.phase = "send"]
  IN IF Handled(p, AllOk).sent.called
     THEN pending' = [pending EXCEPT ![c] = p] /\ Unanswered(c)
     ELSE pending' = [pending EXCEPT ![c] = NoPending]
          /\ Respond(c, q, Handled(p, AllOk))

\* a mutation handler is called with request q
Call(c, q, tid) ==
  /\ Room(c)
  /\ Handle(c, q, tid)
  /\ UNCHANGED <<topic, live, closed, pos, committed, cpc, outerN, innerN, held, span,
                 deliv, applied, server, authVars, consumer, call, parts>>

\* id: the value of Math.random().toString(36).substring(2)
CreateRequest(c) ==
  \E body \in CreateBodies, id \in FreshIds :
     Call(c, Req("POST /live", Undef, body, NoJwt), id)

UpdateRequest(c) ==
  \E body \in UpdateBodies, id \in Ids :
     Call(c, Req("PUT /live/:id", id, body, NoJwt), Undef)

DeleteRequest(c) ==
  \E id \in Ids : Call(c, Req("DELETE /live/:id", id, EmptyTrade, NoJwt), Undef)

CloseRequest(c) ==
  \E body \in CloseBodies, id \in Ids :
     Call(c, Req("POST /live/:id/close", id, body, NoJwt), Undef)

\* a broker that also applies the message it appends to the live trades
BrokerAppendsApplying(c) ==
  /\ pending[c].phase = "send"
  /\ topic' = topic \o Outcome(pending[c]).published
  /\ pending' = [pending EXCEPT ![c].phase = "acked"]
  /\ live' = IF Outcome(pending[c]).published # <<>>
                /\ Outcome(pending[c]).published[1].event = "TradeDeleted"
             THEN LiveTradeDelete(live, Outcome(pending[c]).published[1].trade.id).table
             ELSE live
  /\ UNCHANGED <<closed, pos, committed, cpc, outerN, innerN, held, span,
                 deliv, applied, resp, sent, server, req, authVars, consumer, call, parts>>

\* the broker appends the message of the producer.send that client c's
\* request is waiting for; its acknowledgement is on the way to the producer
BrokerAppends(c) ==
  /\ pending[c].phase = "send"
  /\ topic' = topic \o Outcome(pending[c]).published
  /\ pending' = [pending EXCEPT ![c].phase = "acked"]
  /\ UNCHANGED <<live, closed, pos, committed, cpc, outerN, innerN, held, span,
                 deliv, applied, resp, sent, server, req, authVars, consumer, call, parts>>

\* the producer.send that client c's request is waiting for fails with err:
\* the retry waits and sends again, or, its attempts used up, it rejects and
\* the catch block of the handler answers
BrokerFails(c, err) ==
  /\ pending[c].phase = "send"
  /\ Len(pending[c].errs) < MaxSendFaults
  /\ LET p == [pending[c] EXCEPT !.errs = Append(@, err)]
     IN IF Outcome(p).sent.attempts > Len(p.errs)
        THEN pending' = [pending EXCEPT ![c] = p] /\ UNCHANGED <<req, resp, sent>>
        ELSE pending' = [pending EXCEPT ![c] = NoPending]
             /\ Respond(c, p.q, Outcome(p))
  /\ UNCHANGED <<topic, live, closed, pos, committed, cpc, outerN, innerN, held, span,
                 deliv, applied, server, authVars, consumer, call, parts>>

\* the acknowledgement reaches the producer: sendMessage resolves and the
\* handler answers
Acked(c) ==
  /\ pending[c].phase = "acked"
  /\ pending' = [pending EXCEPT ![c] = NoPending]
  /\ Respond(c, pending[c].q, Outcome(pending[c]))
  /\ UNCHANGED <<topic, live, closed, pos, committed, cpc, outerN, innerN, held, span,
                 deliv, applied, server, authVars, consumer, call, parts>>

(***************************************************************************)
(* The trades router: router.use(authenticateJWT) in front of the six      *)
(* handlers of /api/trades                                                 *)
(***************************************************************************)
\* rows of the User table
Users == {"u1", "u2"}

\* Account.userId: whose account it is
AccountOwner == [a \in Accounts |-> "u1"]

\* the jwt cookie of a request: none, a token signed with another key, a
\* token with a good signature naming a user that does not exist, a token
\* with a good signature naming a user
JwtCookies ==
  {NoJwt, [jwt |-> "forged", userId |-> "u1"], [jwt |-> "signed", userId |-> "u9"]}
    \cup {[jwt |-> "signed", userId |-> u] : u \in Users}

\* the jwt cookies of clients that are logged in
SignedCookies == {[jwt |-> "signed", userId |-> u] : u \in Users}

\* the JwtStrategy: the token is taken from the cookie and its signature is
\* verified; the verify callback looks the user up.  Undef: no user
JwtStrategy(cookie) ==
  IF cookie.jwt # "signed" THEN Undef
  ELSE IF cookie.userId \notin Users THEN Undef
  ELSE cookie.userId

\* a middleware that calls next() whatever the strategy found
authenticateJWTNoCheck(cookie) ==
  [resp |-> NoResponse, user |-> JwtStrategy(cookie), next |-> TRUE]

\* authenticateJWT: without a user it answers
\* res.status(StatusCodes.CREATED).json({ error: 'Unauthorized' }) and does
\* not call next(); with one it sets req.user and calls next()
authenticateJWT(cookie) ==
  LET user == JwtStrategy(cookie)
  IN IF user = Undef
     THEN [resp |-> [trade |-> EmptyTrade, error |-> "Unauthorized",
                     handler |-> "authenticateJWT", status |-> CREATED, trades |-> {}],
           user |-> Undef, next |-> FALSE]
     ELSE [resp |-> NoResponse, user |-> user, next |-> TRUE]

\* getLiveTradesHandler: res.json(await getLiveTrades(accountId)); rejected:
\* the findMany calls of the retry that the database rejected before it
\* answered one, or all DbRetries + 1 of them
getLiveTradesHandler(accountId, liveT, rejected) ==
  IF accountId = Undef
  THEN [resp |-> ErrorResponse("getLiveTradesHandler", "accountId is required"),
        sent |-> NoSend, reads |-> 0, published |-> <<>>]
  ELSE IF rejected > DbRetries
  THEN [resp |-> ErrorResponse("getLiveTradesHandler", "database unavailable"),
        sent |-> NoSend, reads |-> DbRetries + 1, published |-> <<>>]
  ELSE [resp |-> [trade |-> EmptyTrade, error |-> "", handler |-> "getLiveTradesHandler",
                  status |-> HTTP_OK,
                  trades |-> {liveT[k] : k \in {j \in DOMAIN liveT :
                                                  liveT[j].accountId = accountId}}],
        sent |-> NoSend, reads |-> rejected + 1, published |-> <<>>]

\* getClosedTradesHandler: res.json(await getClosedTrades(accountId))
getClosedTradesHandler(accountId, closedT, rejected) ==
  IF accountId = Undef
  THEN [resp |-> ErrorResponse("getClosedTradesHandler", "accountId is required"),
        sent |-> NoSend, reads |-> 0, published |-> <<>>]
  ELSE IF rejected > DbRetries
  THEN [resp |-> ErrorResponse("getClosedTradesHandler", "database unavailable"),
        sent |-> NoSend, reads |-> DbRetries + 1, published |-> <<>>]
  ELSE [resp |-> [trade |-> EmptyTrade, error |-> "", handler |-> "getClosedTradesHandler",
                  status |-> HTTP_OK,
                  trades |-> {closedT[k] : k \in {j \in DOMAIN closedT :
                                                    closedT[j].accountId = accountId}}],
        sent |-> NoSend, reads |-> rejected + 1, published |-> <<>>]

\* a request arrives at the router: authenticateJWT hands it to passport,
\* whose verify callback awaits prisma.user.findUnique
Arrive(c, q) ==
  /\ Room(c)
  /\ pending' = [pending EXCEPT ![c] = [NoPending EXCEPT !.q = q, !.phase = "auth"]]
  /\ Unanswered(c)
  /\ UNCHANGED <<topic, live, closed, pos, committed, cpc, outerN, innerN, held, span,
                 deliv, applied, server, authVars, consumer, call, parts>>

\* the verify callback is done: authenticateJWT answers, or it calls next()
\* and the handler of the route runs up to its first await: that of a
\* mutation to its first producer.send, that of a GET route, unless the
\* query has no accountId, to the findMany of getLiveTrades or
\* getClosedTrades.  id: the value of
\* Math.random().toString(36).substring(2) in createLiveTrade
Authenticated(c, id) ==
  /\ pending[c].phase = "auth"
  /\ LET a == authenticateJWT(pending[c].q.cookie)
         q == [pending[c].q EXCEPT !.user = a.user]
         ended == pending' = [pending EXCEPT ![c] = NoPending]
     IN /\ id # Undef <=> (a.next /\ q.route = "POST /live")
        /\ IF ~a.next
           THEN ended /\ Respond(c, q, [NoResult EXCEPT !.resp = a.resp])
           ELSE IF q.route \in {"GET /live", "GET /closed"}
           THEN IF q.body.accountId = Undef
                THEN ended
                     /\ Respond(c, q, IF q.route = "GET /live"
                                      THEN getLiveTradesHandler(Undef, live, 0)
                                      ELSE getClosedTradesHandler(Undef, closed, 0))
                ELSE /\ pending' = [pending EXCEPT ![c] = [@ EXCEPT !.q = q,
                                                                   !.phase = "query"]]
                     /\ UNCHANGED <<req, resp, sent>>
           ELSE Handle(c, q, id)
  /\ UNCHANGED <<topic, live, closed, pos, committed, cpc, outerN, innerN, held, span,
                 deliv, applied, server, authVars, consumer, call, parts>>

\* the database answers the findMany that client c's GET request is waiting
\* for with the rows it holds now, or, dbDown, it rejects the call: the
\* retry waits and calls findMany again, or, its attempts used up, it
\* rejects; the handler has not run on yet
FindMany(c, dbDown) ==
  /\ pending[c].phase = "query"
  /\ LET q == pending[c].q
         rejected == Len(pending[c].errs) + (IF dbDown THEN 1 ELSE 0)
         got == IF q.route = "GET /live"
                THEN getLiveTradesHandler(q.body.accountId, live, rejected)
                ELSE getClosedTradesHandler(q.body.accountId, closed, rejected)
     IN IF dbDown /\ rejected <= DbRetries
        THEN pending' = [pending EXCEPT ![c] =
                           [@ EXCEPT !.errs = Append(@, "PrismaClientInitializationError")]]
        ELSE pending' = [pending EXCEPT ![c] = [@ EXCEPT !.got = got, !.phase = "read"]]
  /\ UNCHANGED <<topic, live, closed, pos, committed, cpc, outerN, innerN, held, span,
                 deliv, applied, resp, sent, server, req, authVars, consumer, call, parts>>

\* the GET handler of client c runs on from its await: res.json(trades)
\* with the rows the database answered with, or the catch block
Replied(c) ==
  /\ pending[c].phase = "read"
  /\ pending' = [pending EXCEPT ![c] = NoPending]
  /\ Respond(c, pending[c].q, pending[c].got)
  /\ UNCHANGED <<topic, live, closed, pos, committed, cpc, outerN, innerN, held, span,
                 deliv, applied, server, authVars, consumer, call, parts>>

\* router.post('/live', createLiveTrade)
PostLive(c, cookies) ==
  \E cookie \in cookies, body \in CreateBodies :
     FreshIds # {} /\ Arrive(c, Req("POST /live", Undef, body, cookie))

\* router.put('/live/:id', updateLiveTrade)
PutLive(c, cookies) ==
  \E cookie \in cookies, body \in UpdateBodies, id \in Ids :
     Arrive(c, Req("PUT /live/:id", id, body, cookie))

\* router.delete('/live/:id', deleteLiveTrade)
DeleteLive(c, cookies) ==
  \E cookie \in cookies, id \in Ids :
     Arrive(c, Req("DELETE /live/:id", id, EmptyTrade, cookie))

\* router.post('/live/:id/close', closeLiveTrade)
PostLiveClose(c, cookies) ==
  \E cookie \in cookies, body \in CloseBodies, id \in Ids :
     Arrive(c, Req("POST /live/:id/close", id, body, cookie))

\* router.get('/live', getLiveTradesHandler); the body field of the request
\* holds the query
GetLive(c, cookies) ==
  \E cookie \in cookies, accountId \in Accounts \cup {Undef} :
     Arrive(c, Req("GET /live", Undef, [EmptyTrade EXCEPT !.accountId = accountId], cookie))

\* router.get('/closed', getClosedTradesHandler)
GetClosed(c, cookies) ==
  \E cookie \in cookies, accountId \in Accounts \cup {Undef} :
     Arrive(c, Req("GET /closed", Undef, [EmptyTrade EXCEPT !.accountId = accountId],
                   cookie))

(***************************************************************************)
(* Authentication: the handlers of auth.controller behind the auth router, *)
(* on the User, Account and RefreshToken tables.  A handler is an operator *)
(* from the request, the tables and the clock to the response and the      *)
(* tables after it, as when nothing else runs while it is served.  The     *)
(* updatedAt columns and the id column of RefreshToken are left out.       *)
(***************************************************************************)
CONFLICT == 409
UNAUTHORIZED == 401
INTERNAL_SERVER_ERROR == 500

ONE_HOUR_MS == 3600000
SEVEN_DAYS_MS == 7 * 24 * 60 * 60 * 1000
\* the expiresIn options '1h' and '7d' of jwt.sign, in seconds
OneHour == 3600
SevenDays == 604800

\* ids that uuid() gives to the rows of User and of Account, in the order
\* the rows are created
UserIds == <<"u1", "u2">>
AccountIds == <<"acc1", "acc2">>

\* strings that z.string().email() accepts
Emails == {"a@x.io", "b@x.io"}

\* the readings of the clock: up to MaxSeconds seconds, and the same after
\* the seven days that a refresh token lasts
Times == {s * 1000 + w * SEVEN_DAYS_MS : s \in 0..MaxSeconds, w \in 0..1}

\* jwt.sign({ userId }, JWT_SECRET, { expiresIn }): the payload with iat, the
\* second of signing, and exp; the same payload signed within the same
\* second is the same token
sign(userId, expiresIn, now) ==
  [userId |-> userId, iat |-> now \div 1000, exp |-> (now \div 1000) + expiresIn]

\* getExpirationDate.refreshToken()
RefreshTokenExpiration(now) == now + SEVEN_DAYS_MS

\* bcrypt.hash and bcrypt.compare
Hash(password) == <<"bcrypt", password>>
Compare(password, hashed) == hashed = Hash(password)

NoUser == [id |-> Undef, createdAt |-> 0, email |-> Undef, password |-> Hash(Undef)]
NoStoredToken == [userId |-> Undef, token |-> NoToken, expiresAt |-> 0]

\* the tables as a handler meets them
Db ==
  [users |-> users, accounts |-> accounts, refreshTokens |-> refreshTokens]

\* prisma.user.findUnique({ where: { email } })
UserByEmail(usersT, email) ==
  IF \E u \in usersT : u.email = email
  THEN CHOOSE u \in usersT : u.email = email
  ELSE NoUser

\* prisma.refreshToken.findUnique({ where: { token } })
StoredToken(tokensT, token) ==
  IF \E r \in tokensT : r.token = token
  THEN CHOOSE r \in tokensT : r.token = token
  ELSE NoStoredToken

\* user.Account[0].id; with no account of the user Account[0] is undefined
\* and reading its id throws
TypeError == "TypeError"
FirstAccountId(accountsT, userId) ==
  IF \E a \in accountsT : a.userId = userId
  THEN (CHOOSE a \in accountsT : a.userId = userId).id
  ELSE TypeError

\* res.status(code).json({ error })
AuthError(res, code, error) == [res EXCEPT !.status = code, !.error = error]

\* the catch block of a handler: what the response already carries stays,
\* the answer is 500
InternalServerError(res) == AuthError(res, INTERNAL_SERVER_ERROR, "Internal server error")

registerSchema(body) ==
  /\ body.email \in Emails
  /\ body.password # Undef
  /\ Len(body.password) >= 8
  /\ body.account.name # Undef
  /\ body.account.startingBalance > 0

loginSchema(body) ==
  /\ body.email \in Emails
  /\ body.password # Undef
  /\ Len(body.password) >= 6

\* a register that does not look the email up
registerNoLookup(body, db, createdAt, signedAt, now) ==
  LET n == (Cardinality(db.users) % Len(UserIds)) + 1
      newUser == [id |-> UserIds[n], createdAt |-> createdAt, email |-> body.email,
                  password |-> Hash(body.password)]
      newAccount == [id |-> AccountIds[n], userId |-> newUser.id,
                     name |-> body.account.name,
                     startingBalance |-> body.account.startingBalance]
      refreshToken == sign(newUser.id, SevenDays, signedAt)
      token == sign(newUser.id, OneHour, now)
  IN IF ~registerSchema(body)
     THEN [res |-> AuthError(NoAuthResponse, BAD_REQUEST, "ZodError"), db |-> db]
     ELSE [res |-> [NoAuthResponse EXCEPT
                      !.status = CREATED,
                      !.message = "User registered successfully",
                      !.userId = newUser.id,
                      !.accountId = newAccount.id,
                      !.cookie = [jwt |-> token, refreshToken |-> refreshToken]],
           db |-> [users |-> db.users \cup {newUser},
                   accounts |-> db.accounts \cup {newAccount},
                   refreshTokens |-> db.refreshTokens \cup
                     {[userId |-> newUser.id, token |-> refreshToken,
                       expiresAt |-> RefreshTokenExpiration(signedAt)]}]]

\* register from its transaction on: the jwt is signed, both cookies are
\* set and the answer is 201 with the ids of the rows created
registered(userId, accountId, refreshToken, now) ==
  [NoAuthResponse EXCEPT
     !.status = CREATED,
     !.message = "User registered successfully",
     !.userId = userId,
     !.accountId = accountId,
     !.cookie = [jwt |-> sign(userId, OneHour, now), refreshToken |-> refreshToken]]

\* register: the body is parsed, the email is looked up (409 when a user has
\* it); the user, the account and the refresh token are created in one
\* transaction; both cookies are set and the answer is 201.  The clock is
\* read three times, with awaits in between: createdAt when tx.user.create
\* runs, signedAt when the refresh token is signed and its expiresAt
\* computed, now when the access token is signed after the commit
register(body, db, createdAt, signedAt, now) ==
  LET n == Cardinality(db.users) + 1
      newUser == [id |-> UserIds[n], createdAt |-> createdAt, email |-> body.email,
                  password |-> Hash(body.password)]
      newAccount == [id |-> AccountIds[n], userId |-> newUser.id,
                     name |-> body.account.name,
                     startingBalance |-> body.account.startingBalance]
      refreshToken == sign(newUser.id, SevenDays, signedAt)
  IN IF ~registerSchema(body)
     THEN [res |-> AuthError(NoAuthResponse, BAD_REQUEST, "ZodError"), db |-> db]
     ELSE IF UserByEmail(db.users, body.email) # NoUser
     THEN [res |-> AuthError(NoAuthResponse, CONFLICT,
                             "Registration failed: Email already exists"),
           db |-> db]
     ELSE [res |-> registered(newUser.id, newAccount.id, refreshToken, now),
           db |-> [users |-> db.users \cup {newUser},
                   accounts |-> db.accounts \cup {newAccount},
                   refreshTokens |-> db.refreshTokens \cup
                     {[userId |-> newUser.id, token |-> refreshToken,
                       expiresAt |-> RefreshTokenExpiration(signedAt)]}]]

\* the LocalStrategy and authenticateLocal: passport-local fails a request
\* without email or password ('Missing credentials'); the verify callback
\* looks the user up and compares the password; a failure is answered 400
authenticateLocal(body, usersT) ==
  LET user == UserByEmail(usersT, body.email)
  IN IF body.email = Undef \/ body.password = Undef
     THEN [user |-> Undef, next |-> FALSE,
           res |-> AuthError(NoAuthResponse, BAD_REQUEST, "Missing credentials")]
     ELSE IF user = NoUser \/ ~Compare(body.password, user.password)
     THEN [user |-> Undef, next |-> FALSE,
           res |-> AuthError(NoAuthResponse, BAD_REQUEST, "Invalid credentials")]
     ELSE [user |-> user.id, next |-> TRUE, res |-> NoAuthResponse]

\* prisma.refreshToken.upsert({ where: { userId }, update, create })
UpsertToken(db, userId, token, expiresAt) ==
  IF \E r \in db.refreshTokens : r.userId = userId
  THEN [db EXCEPT !.refreshTokens =
          {IF r.userId = userId
           THEN [r EXCEPT !.token = token, !.expiresAt = expiresAt]
           ELSE r : r \in @}]
  ELSE [db EXCEPT !.refreshTokens =
          @ \cup {[userId |-> userId, token |-> token, expiresAt |-> expiresAt]}]

\* login: the body is parsed, the user is looked up and the password
\* compared (401); the refresh token of the user is upserted, both cookies
\* are set and the answer is 200.  When user.Account[0].id throws, the
\* catch block answers 500 on the response that carries the cookies
login(body, db, now) ==
  LET user == UserByEmail(db.users, body.email)
      token == sign(user.id, OneHour, now)
      refreshToken == sign(user.id, SevenDays, now)
      accountId == FirstAccountId(db.accounts, user.id)
  IN IF ~loginSchema(body)
     THEN [res |-> AuthError(NoAuthResponse, BAD_REQUEST, "ZodError"), db |-> db]
     ELSE IF user = NoUser \/ ~Compare(body.password, user.password)
     THEN [res |-> AuthError(NoAuthResponse, UNAUTHORIZED, "Invalid login credentials"),
           db |-> db]
     ELSE IF accountId = TypeError
     THEN [res |-> InternalServerError(
                     [NoAuthResponse EXCEPT
                        !.cookie = [jwt |-> token, refreshToken |-> refreshToken]]),
           db |-> UpsertToken(db, user.id, refreshToken, RefreshTokenExpiration(now))]
     ELSE [res |-> [NoAuthResponse EXCEPT
                      !.status = HTTP_OK,
                      !.message = "User logged in successfully",
                      !.userId = user.id,
                      !.accountId = accountId,
                      !.cookie = [jwt |-> token, refreshToken |-> refreshToken]],
           db |-> UpsertToken(db, user.id, refreshToken, RefreshTokenExpiration(now))]

\* the JwtStrategy on the jwt cookie of a request to the auth router: the
\* token is verified (signature, exp) and the user it names is looked up.
\* Undef: no user
JwtUser(token, usersT, now) ==
  IF token = NoToken THEN Undef
  ELSE IF now \div 1000 >= token.exp THEN Undef
  ELSE IF \E u \in usersT : u.id = token.userId THEN token.userId
  ELSE Undef

\* authenticateJWT in front of a handler of the auth router
authenticateJWTCookie(token, usersT, now) ==
  LET user == JwtUser(token, usersT, now)
  IN IF user = Undef
     THEN [user |-> Undef, next |-> FALSE,
           res |-> AuthError(NoAuthResponse, CREATED, "Unauthorized")]
     ELSE [user |-> user, next |-> TRUE, res |-> NoAuthResponse]

\* logout: with a refreshToken cookie, deleteMany({ where: { token } }); both
\* cookies are cleared and the answer is 200.  req.user.id is read after the
\* delete and after the cookies are cleared: without req.user that throws
logout(cookies, user, db) ==
  LET sentToken == cookies.refreshToken # NoToken
      after == IF sentToken
               THEN [db EXCEPT !.refreshTokens =
                       {r \in @ : r.token # cookies.refreshToken}]
               ELSE db
      cleared == [NoAuthResponse EXCEPT !.clearCookie = {"jwt", "refreshToken"}]
  IN IF sentToken /\ user = Undef
     THEN [res |-> InternalServerError(NoAuthResponse), db |-> after]
     ELSE IF user = Undef
     THEN [res |-> InternalServerError(cleared), db |-> after]
     ELSE [res |-> [cleared EXCEPT !.status = HTTP_OK, !.message = "Logout successful"],
           db |-> after]

\* a refresh that accepts a token the store does not hold
refreshUnchecked(cookies, user, db, now) ==
  LET userId == cookies.refreshToken.userId
      newToken == sign(userId, OneHour, now)
      newRefreshToken == sign(userId, SevenDays, now)
  IN [res |-> [NoAuthResponse EXCEPT
                 !.status = HTTP_OK, !.message = "Token refreshed successfully",
                 !.cookie = [jwt |-> newToken, refreshToken |-> newRefreshToken]],
      db |-> db]

\* refresh: 401 without a refreshToken cookie, 401 when the token is not
\* stored or its row has expired; else the row is deleted and a row with a
\* new token created in one transaction, and both cookies are set.  Then
\* req.user.id is read for the log line: without req.user that throws, and
\* the catch block answers 500 on the response that carries the cookies
refresh(cookies, user, db, now) ==
  LET refreshToken == cookies.refreshToken
      storedToken == StoredToken(db.refreshTokens, refreshToken)
      newToken == sign(storedToken.userId, OneHour, now)
      newRefreshToken == sign(storedToken.userId, SevenDays, now)
      after == [db EXCEPT !.refreshTokens =
                  (@ \ {storedToken}) \cup
                  {[userId |-> storedToken.userId, token |-> newRefreshToken,
                    expiresAt |-> RefreshTokenExpiration(now)]}]
      withCookies == [NoAuthResponse EXCEPT
                        !.cookie = [jwt |-> newToken, refreshToken |-> newRefreshToken]]
  IN IF refreshToken = NoToken
     THEN [res |-> AuthError(NoAuthResponse, UNAUTHORIZED, "No refresh token provided"),
           db |-> db]
     ELSE IF storedToken = NoStoredToken \/ storedToken.expiresAt < now
     THEN [res |-> AuthError(NoAuthResponse, UNAUTHORIZED, "Invalid refresh token"),
           db |-> db]
     ELSE IF user = Undef
     THEN [res |-> InternalServerError(withCookies), db |-> after]
     ELSE [res |-> [withCookies EXCEPT !.status = HTTP_OK,
                                       !.message = "Token refreshed successfully"],
           db |-> after]

\* request bodies of register and login
AccountBodies == {[name |-> "main", startingBalance |-> 1000]}
RegisterBodies ==
  {[email |-> e, password |-> p, account |-> a] :
     e \in Emails, p \in {"password1", "short"}, a \in AccountBodies}
LoginBodies ==
  {[email |-> e, password |-> p, account |-> NoAccountBody] :
     e \in Emails \cup {Undef}, p \in {"password1", "short"}}

\* a cookie value the server never signed
UnknownToken == [userId |-> "nobody", iat |-> 0, exp |-> 0]

\* refreshToken cookies a client can send: none, a value the server never
\* signed, or a token the server has signed: one the store holds, the one
\* the last response set, the one the last request carried
RefreshCookies ==
  {NoToken, UnknownToken}
    \cup {r.token : r \in refreshTokens}
    \cup {authRes.cookie.refreshToken, authReq.cookies.refreshToken}

\* jwt cookies a client can send: none, or an access token that register,
\* login or refresh signed for a user since the user was created
JwtTokens ==
  {NoToken} \cup UNION {{sign(u.id, OneHour, t) :
                           t \in {x \in Times : u.createdAt <= x /\ x <= clock}} :
                        u \in users}

AuthReq(route, body, cookies, user) ==
  [body |-> body, route |-> route, user |-> user, cookies |-> cookies]

(***************************************************************************)
(* The requests to the auth router.  A handler that reads and then writes  *)
(* is three steps: up to its reads (middleware, parse, findUnique,         *)
(* compare, jwt.sign), the write taking effect in the database, and the    *)
(* handler running on from the awaited write to its response; the clock    *)
(* can move and another request can be served in between.  refresh is five *)
(* steps: up to its findUnique call, the database's answer, the check of   *)
(* the row and jwt.sign, the transaction, the response.  A $transaction    *)
(* takes effect in one step, when it commits, whole or not at all; what it *)
(* read of the clock it read since the handler called it.  A write that    *)
(* the database rejects is answered by the catch block in the step of the  *)
(* rejection.  The columns email of User, userId and token of RefreshToken *)
(* are @unique.  Two requests are in flight at most.                       *)
(***************************************************************************)
\* the slot of the client whose requests and responses are recorded, and
\* the slots of two clients that are not watched
Watched == 1
Unwatched == {2, 3}
Other(s) == CHOOSE o \in Unwatched : o # s

\* slot s can take a request: of the slots a request takes the first that
\* is free
InFlight(f) == f.phase \in {"lookup", "found", "read", "wrote"}
Free(s, slots) ==
  /\ server.state = "listening"
  /\ flight[s].phase \in {"idle", "done"}
  /\ \A o \in slots : o < s => InFlight(flight[o])

\* the response res to the request q of slot s is sent
Answer(s, q, res) ==
  IF s = Watched
  THEN /\ authReq' = q
       /\ authRes' = res
       /\ revoked' = IF q.route = "POST /logout" /\ q.user # Undef
                        /\ q.cookies.refreshToken # NoToken
                     THEN q.cookies.refreshToken
                     ELSE revoked
  ELSE UNCHANGED <<authReq, authRes, revoked>>

\* the request in slot s is answered before it writes
EndedAtRead(s) == [flight EXCEPT ![s] = NoFlight]

\* the request in slot s got past its reads; it races with the request of
\* the other slot when that one got past the same reads and has not written
Passed(s, route, body, cookies, user) ==
  LET rivals == {o \in Slots \ {s} :
                   /\ flight[o].phase = "read" /\ flight[o].route = route
                   /\ flight[o].body.email = body.email
                   /\ flight[o].cookies.refreshToken = cookies.refreshToken}
  IN [o \in Slots |->
        IF o = s
        THEN [NoFlight EXCEPT !.route = route, !.body = body, !.cookies = cookies,
                              !.user = user, !.phase = "read",
                              !.raced = rivals # {}, !.alive = TRUE, !.now = clock]
        ELSE IF o \in rivals THEN [flight[o] EXCEPT !.raced = TRUE]
        ELSE flight[o]]

\* what is kept of a request that was answered: of one that raced what it
\* asked for and the status it got
Kept(f, status) ==
  IF f.raced
  THEN [f EXCEPT !.status = status, !.phase = "done", !.user = Undef, !.now = 0,
                 !.storedExpiresAt = 0,
                 !.body = [NoAuthBody EXCEPT !.email = f.body.email],
                 !.cookies = [NoCookies EXCEPT !.refreshToken = f.cookies.refreshToken]]
  ELSE NoFlight

\* the request in slot s is answered
Answered(s, status) == [flight EXCEPT ![s] = Kept(flight[s], status)]

\* the write of the request in slot s took effect; user and now are what
\* the handler is handed back or holds for its response.  The stored
\* refresh tokens of the users in gone were deleted: a request that was
\* given such a row and has not written holds the id of a row that is no
\* more
Wrote(s, user, now, gone) ==
  [o \in Slots |->
     IF o = s THEN [flight[o] EXCEPT !.phase = "wrote", !.user = user, !.now = now]
     ELSE IF flight[o].user \in gone /\ flight[o].phase \in {"found", "read"}
     THEN [flight[o] EXCEPT !.alive = FALSE]
     ELSE flight[o]]

\* router.post('/register', register), up to the existing-user check
RegisterRead(s, slots, body) ==
  /\ Free(s, slots)
  /\ LET r == register(body, Db, clock, clock, clock)
     IN IF r.res.status = CREATED
        THEN /\ flight' = Passed(s, "POST /register", body, NoCookies, Undef)
             /\ UNCHANGED <<authReq, authRes, revoked>>
        ELSE /\ flight' = EndedAtRead(s)
             /\ Answer(s, AuthReq("POST /register", body, NoCookies, Undef), r.res)
  /\ UNCHANGED <<topic, live, closed, pos, committed, cpc, outerN, innerN, held, span,
                 deliv, applied, resp, sent, pending, server, req, consumer, call, parts,
                 users, accounts, refreshTokens, clock>>

\* a register whose transaction does not meet the unique constraint
RegisterWriteUnconstrained(s) ==
  /\ flight[s].phase = "read"
  /\ flight[s].route = "POST /register"
  /\ Cardinality(users) < Len(UserIds)
  /\ LET body == flight[s].body
         n == Cardinality(users) + 1
     IN /\ users' = users \cup {[id |-> UserIds[n], createdAt |-> clock,
                                  email |-> body.email,
                                  password |-> Hash(body.password)]}
        /\ accounts' = accounts \cup
                         {[id |-> AccountIds[n], userId |-> UserIds[n],
                           name |-> body.account.name,
                           startingBalance |-> body.account.startingBalance]}
        /\ refreshTokens' = refreshTokens \cup
                              {[userId |-> UserIds[n],
                                token |-> sign(UserIds[n], SevenDays, clock),
                                expiresAt |-> RefreshTokenExpiration(clock)]}
        /\ flight' = Wrote(s, UserIds[n], clock, {})
  /\ UNCHANGED <<topic, live, closed, pos, committed, cpc, outerN, innerN, held, span,
                 deliv, applied, resp, sent, pending, server, req, consumer, call, parts,
                 clock, authReq, authRes, revoked>>

\* the transaction of register commits, or it is rolled back.  When a user
\* has the email by now, tx.user.create throws (P2002), the transaction is
\* rolled back and the catch block answers 500.  Else the rows are there;
\* tx.user.create and the signing of the refresh token ran since the
\* lookup, each at a reading of the clock no later than the next; the
\* handler has not run on yet
RegisterWrite(s) ==
  /\ flight[s].phase = "read"
  /\ flight[s].route = "POST /register"
  /\ \E createdAt \in Times, signedAt \in Times :
        /\ flight[s].now <= createdAt /\ createdAt <= signedAt /\ signedAt <= clock
        /\ LET body == flight[s].body
               r == register(body, Db, createdAt, signedAt, clock)
           IN IF UserByEmail(users, body.email) # NoUser
              THEN /\ flight' = Answered(s, INTERNAL_SERVER_ERROR)
                   /\ Answer(s, AuthReq("POST /register", body, NoCookies, Undef),
                             InternalServerError(NoAuthResponse))
                   /\ UNCHANGED <<users, accounts, refreshTokens>>
              ELSE /\ users' = r.db.users
                   /\ accounts' = r.db.accounts
                   /\ refreshTokens' = r.db.refreshTokens
                   /\ flight' = Wrote(s, r.res.userId, signedAt, {})
                   /\ UNCHANGED <<authReq, authRes, revoked>>
  /\ UNCHANGED <<topic, live, closed, pos, committed, cpc, outerN, innerN, held, span,
                 deliv, applied, resp, sent, pending, server, req, consumer, call, parts,
                 clock>>

\* register runs on from its transaction: it signs the jwt, sets the
\* cookies and answers 201
RegisterReply(s) ==
  /\ flight[s].phase = "wrote"
  /\ flight[s].route = "POST /register"
  /\ LET f == flight[s]
         res == registered(f.user, FirstAccountId(accounts, f.user),
                           sign(f.user, SevenDays, f.now), clock)
     IN /\ flight' = Answered(s, res.status)
        /\ Answer(s, AuthReq("POST /register", f.body, NoCookies, Undef), res)
  /\ UNCHANGED <<topic, live, closed, pos, committed, cpc, outerN, innerN, held, span,
                 deliv, applied, resp, sent, pending, server, req, consumer, call, parts,
                 users, accounts, refreshTokens, clock>>

\* router.post('/login', authenticateLocal, login), up to the call of the
\* upsert: authenticateLocal, parse, findUnique, compare, jwt.sign
LoginRead(s, slots, body) ==
  /\ Free(s, slots)
  /\ LET a == authenticateLocal(body, users)
         r == IF a.next THEN login(body, Db, clock) ELSE [res |-> a.res, db |-> Db]
     IN IF r.res.status \in {HTTP_OK, INTERNAL_SERVER_ERROR}
        THEN /\ flight' = Passed(s, "POST /login", body, NoCookies, a.user)
             /\ UNCHANGED <<authReq, authRes, revoked>>
        ELSE /\ flight' = EndedAtRead(s)
             /\ Answer(s, AuthReq("POST /login", body, NoCookies, a.user), r.res)
  /\ UNCHANGED <<topic, live, closed, pos, committed, cpc, outerN, innerN, held, span,
                 deliv, applied, resp, sent, pending, server, req, consumer, call, parts,
                 users, accounts, refreshTokens, clock>>

\* the upsert of login takes effect: the tokens were signed and the expiry
\* computed when the upsert was called; the row keeps its id when it is
\* updated; the handler has not run on yet
LoginWrite(s) ==
  /\ flight[s].phase = "read"
  /\ flight[s].route = "POST /login"
  /\ refreshTokens' = login(flight[s].body, Db, flight[s].now).db.refreshTokens
  /\ flight' = Wrote(s, flight[s].user, flight[s].now, {})
  /\ UNCHANGED <<topic, live, closed, pos, committed, cpc, outerN, innerN, held, span,
                 deliv, applied, resp, sent, pending, server, req, consumer, call, parts,
                 users, accounts, clock, authReq, authRes, revoked>>

\* login runs on from its upsert: the cookies are set with the tokens it
\* signed and the answer is 200, with the user and the accounts that
\* findUnique returned (a user's rows are not changed once created)
LoginReply(s) ==
  /\ flight[s].phase = "wrote"
  /\ flight[s].route = "POST /login"
  /\ LET f == flight[s]
         r == login(f.body, Db, f.now)
     IN /\ flight' = Answered(s, r.res.status)
        /\ Answer(s, AuthReq("POST /login", f.body, NoCookies, f.user), r.res)
  /\ UNCHANGED <<topic, live, closed, pos, committed, cpc, outerN, innerN, held, span,
                 deliv, applied, resp, sent, pending, server, req, consumer, call, parts,
                 users, accounts, refreshTokens, clock>>

\* refreshToken cookies a client can send, those of the requests in flight
\* among them
FlightCookies == RefreshCookies \cup {flight[s].cookies.refreshToken : s \in Slots}

\* router.post('/refresh', refresh): no middleware sets req.user.  Up to the
\* call of prisma.refreshToken.findUnique: without a refreshToken cookie the
\* handler answers 401 before it
RefreshRead(s, slots, rt) ==
  /\ Free(s, slots)
  /\ LET cookies == [jwt |-> NoToken, refreshToken |-> rt]
     IN IF rt = NoToken
        THEN /\ flight' = EndedAtRead(s)
             /\ Answer(s, AuthReq("POST /refresh", NoAuthBody, cookies, Undef),
                       refresh(cookies, Undef, Db, clock).res)
        ELSE /\ flight' = [flight EXCEPT ![s] = [NoFlight EXCEPT !.route = "POST /refresh",
                                                                 !.cookies = cookies,
                                                                 !.phase = "lookup",
                                                                 !.now = clock]]
             /\ UNCHANGED <<authReq, authRes, revoked>>
  /\ UNCHANGED <<topic, live, closed, pos, committed, cpc, outerN, innerN, held, span,
                 deliv, applied, resp, sent, pending, server, req, consumer, call, parts,
                 users, accounts, refreshTokens, clock>>

\* the database answers the findUnique({ where: { token } }) of the refresh
\* in slot s with the row it holds now, or with none; the handler has not
\* run on yet.  The request races with the refresh of the other slot when
\* that one was given the same row and has not written
RefreshLookup(s) ==
  /\ flight[s].phase = "lookup"
  /\ LET storedToken == StoredToken(refreshTokens, flight[s].cookies.refreshToken)
         rivals == {o \in Slots \ {s} :
                      /\ storedToken # NoStoredToken
                      /\ flight[o].phase \in {"found", "read"} /\ flight[o].alive
                      /\ flight[o].route = "POST /refresh"
                      /\ flight[o].cookies.refreshToken = flight[s].cookies.refreshToken}
     IN flight' = [o \in Slots |->
                     IF o = s
                     THEN [flight[o] EXCEPT !.phase = "found",
                                            !.user = storedToken.userId,
                                            !.raced = rivals # {},
                                            !.alive = storedToken # NoStoredToken,
                                            !.storedExpiresAt = storedToken.expiresAt]
                     ELSE IF o \in rivals THEN [flight[o] EXCEPT !.raced = TRUE]
                     ELSE flight[o]]
  /\ UNCHANGED <<topic, live, closed, pos, committed, cpc, outerN, innerN, held, span,
                 deliv, applied, resp, sent, pending, server, req, consumer, call, parts,
                 users, accounts, refreshTokens, clock, authReq, authRes, revoked>>

\* the row the refresh in slot s was answered with, as a table: it is the
\* row the handler goes on with, whatever the store holds by now
Looked(f) ==
  IF f.user = Undef THEN {}
  ELSE {[userId |-> f.user, token |-> f.cookies.refreshToken, expiresAt |-> f.storedExpiresAt]}

\* refresh runs on from its findUnique: without a row, or with a row whose
\* expiresAt is before new Date(), it answers 401; else it signs the two
\* tokens and calls the transaction
RefreshCheck(s) ==
  /\ flight[s].phase = "found"
  /\ LET f == flight[s]
         r == refresh(f.cookies, Undef, [Db EXCEPT !.refreshTokens = Looked(f)], clock)
     IN IF r.res.status = UNAUTHORIZED
        THEN /\ flight' = Answered(s, UNAUTHORIZED)
             /\ Answer(s, AuthReq("POST /refresh", NoAuthBody, f.cookies, Undef), r.res)
        ELSE /\ flight' = [flight EXCEPT ![s] = [@ EXCEPT !.phase = "read",
                                                          !.now = clock]]
             /\ UNCHANGED <<authReq, authRes, revoked>>
  /\ UNCHANGED <<topic, live, closed, pos, committed, cpc, outerN, innerN, held, span,
                 deliv, applied, resp, sent, pending, server, req, consumer, call, parts,
                 users, accounts, refreshTokens, clock>>

\* the row and the response of a refresh that signed its tokens at signedAt
\* and whose transaction called tx.refreshToken.create at now
Rotated(userId, signedAt, now) ==
  [row |-> [userId |-> userId, token |-> sign(userId, SevenDays, signedAt),
            expiresAt |-> RefreshTokenExpiration(now)],
   res |-> InternalServerError(
             [NoAuthResponse EXCEPT
                !.cookie = [jwt |-> sign(userId, OneHour, signedAt),
                            refreshToken |-> sign(userId, SevenDays, signedAt)]])]

\* a refresh whose transaction creates the new row whatever the store holds
RefreshWriteUnconstrained(s) ==
  /\ flight[s].phase = "read"
  /\ flight[s].route = "POST /refresh"
  /\ LET f == flight[s]
         rot == Rotated(f.user, clock, clock)
     IN /\ refreshTokens' =
             {r \in refreshTokens : r.token # f.cookies.refreshToken} \cup {rot.row}
        /\ flight' = Wrote(s, f.user, f.now, {})
  /\ UNCHANGED <<topic, live, closed, pos, committed, cpc, outerN, innerN, held, span,
                 deliv, applied, resp, sent, pending, server, req, consumer, call, parts,
                 users, accounts, clock, authReq, authRes, revoked>>

\* a refresh whose create goes through although its delete found no row
RefreshWriteNoRollback(s) ==
  /\ flight[s].phase = "read"
  /\ flight[s].route = "POST /refresh"
  /\ LET f == flight[s]
         mine == IF f.alive THEN {r \in refreshTokens : r.userId = f.user} ELSE {}
         rot == Rotated(f.user, f.now, clock)
     IN /\ refreshTokens' = (refreshTokens \ mine) \cup {rot.row}
        /\ flight' = Wrote(s, f.user, f.now, {f.user})
  /\ UNCHANGED <<topic, live, closed, pos, committed, cpc, outerN, innerN, held, span,
                 deliv, applied, resp, sent, pending, server, req, consumer, call, parts,
                 users, accounts, clock, authReq, authRes, revoked>>

\* the transaction of refresh commits, or it is rolled back.
\* tx.refreshToken.delete({ where: { id: storedToken.id } }) throws when the
\* row is no more (P2025) and the catch block answers 500; else the row with
\* that id, whatever token it holds by now, is replaced by one with the
\* token signed after the check and the expiry read when
\* tx.refreshToken.create was called, at a reading of the clock since the
\* check; the handler has not run on yet
RefreshWrite(s) ==
  /\ flight[s].phase = "read"
  /\ flight[s].route = "POST /refresh"
  /\ LET f == flight[s]
         mine == {r \in refreshTokens : r.userId = f.user}
         q == AuthReq("POST /refresh", NoAuthBody, f.cookies, Undef)
     IN IF f.alive /\ mine # {}
        THEN /\ \E calledAt \in Times :
                   /\ f.now <= calledAt /\ calledAt <= clock
                   /\ refreshTokens' =
                        (refreshTokens \ mine) \cup {Rotated(f.user, f.now, calledAt).row}
             /\ flight' = Wrote(s, f.user, f.now, {f.user})
             /\ UNCHANGED <<authReq, authRes, revoked>>
        ELSE /\ refreshTokens' = refreshTokens
             /\ flight' = [Answered(s, INTERNAL_SERVER_ERROR) EXCEPT ![s].alive = FALSE]
             /\ Answer(s, q, InternalServerError(NoAuthResponse))
  /\ UNCHANGED <<topic, live, closed, pos, committed, cpc, outerN, innerN, held, span,
                 deliv, applied, resp, sent, pending, server, req, consumer, call, parts,
                 users, accounts, clock>>

\* refresh runs on from its transaction: the cookies are set with the
\* tokens it signed, and req.user.id throws: 500
RefreshReply(s) ==
  /\ flight[s].phase = "wrote"
  /\ flight[s].route = "POST /refresh"
  /\ LET f == flight[s]
         res == Rotated(f.user, f.now, clock).res
     IN /\ flight' = Answered(s, res.status)
        /\ Answer(s, AuthReq("POST /refresh", NoAuthBody, f.cookies, Undef), res)
  /\ UNCHANGED <<topic, live, closed, pos, committed, cpc, outerN, innerN, held, span,
                 deliv, applied, resp, sent, pending, server, req, consumer, call, parts,
                 users, accounts, refreshTokens, clock>>

\* router.post('/logout', authenticateJWT, logout), up to next(): the jwt
\* cookie is verified and its user looked up
LogoutRead(s, slots, jwt, rt) ==
  /\ Free(s, slots)
  /\ LET cookies == [jwt |-> jwt, refreshToken |-> rt]
         a == authenticateJWTCookie(jwt, users, clock)
     IN IF a.next
        THEN /\ flight' = Passed(s, "POST /logout", NoAuthBody, cookies, a.user)
             /\ UNCHANGED <<authReq, authRes, revoked>>
        ELSE /\ flight' = EndedAtRead(s)
             /\ Answer(s, AuthReq("POST /logout", NoAuthBody, cookies, a.user), a.res)
  /\ UNCHANGED <<topic, live, closed, pos, committed, cpc, outerN, innerN, held, span,
                 deliv, applied, resp, sent, pending, server, req, consumer, call, parts,
                 users, accounts, refreshTokens, clock>>

\* the logout handler without a refreshToken cookie answers without a call
\* to the database; with one, its deleteMany takes effect and the handler
\* has not run on yet
LogoutWrite(s) ==
  /\ flight[s].phase = "read"
  /\ flight[s].route = "POST /logout"
  /\ LET f == flight[s]
         r == logout(f.cookies, f.user, Db)
         gone == {x.userId : x \in refreshTokens \ r.db.refreshTokens}
     IN IF f.cookies.refreshToken = NoToken
        THEN /\ refreshTokens' = refreshTokens
             /\ flight' = Answered(s, r.res.status)
             /\ Answer(s, AuthReq("POST /logout", NoAuthBody, f.cookies, f.user), r.res)
        ELSE /\ refreshTokens' = r.db.refreshTokens
             /\ flight' = Wrote(s, f.user, f.now, gone)
             /\ UNCHANGED <<authReq, authRes, revoked>>
  /\ UNCHANGED <<topic, live, closed, pos, committed, cpc, outerN, innerN, held, span,
                 deliv, applied, resp, sent, pending, server, req, consumer, call, parts,
                 users, accounts, clock>>

\* logout runs on from its deleteMany: the cookies are cleared and the
\* answer is 200
LogoutReply(s) ==
  /\ flight[s].phase = "wrote"
  /\ flight[s].route = "POST /logout"
  /\ LET f == flight[s]
         r == logout(f.cookies, f.user, Db)
     IN /\ flight' = Answered(s, r.res.status)
        /\ Answer(s, AuthReq("POST /logout", NoAuthBody, f.cookies, f.user), r.res)
  /\ UNCHANGED <<topic, live, closed, pos, committed, cpc, outerN, innerN, held, span,
                 deliv, applied, resp, sent, pending, server, req, consumer, call, parts,
                 users, accounts, refreshTokens, clock>>

\* time passes: a second, or the seven days a refresh token lasts
Tick ==
  /\ \E d \in {1000, SEVEN_DAYS_MS} :
        /\ clock + d \in Times
        /\ clock' = clock + d
  /\ UNCHANGED <<topic, live, closed, pos, committed, cpc, outerN, innerN, held, span,
                 deliv, applied, resp, sent, pending, server, req, users, accounts,
                 refreshTokens, authReq, authRes, revoked, flight, consumer, call, parts>>

(***************************************************************************)
(* The topic as the consumer meets it                                      *)
(***************************************************************************)
\* the messages the handlers can have put on the topic
HandlerMessages ==
  LET calls == {createLiveTrade(b, id, AllOk) : b \in CreateBodies, id \in FreshIds}
          \cup {updateLiveTrade(id, b, AllOk) : id \in Ids, b \in UpdateBodies}
          \cup {deleteLiveTrade(id, AllOk) : id \in Ids}
          \cup {closeLiveTrade(id, b, AllOk) : id \in Ids, b \in CloseBodies}
  IN {c.published[1] : c \in {x \in calls : x.published # <<>>}}

\* message values no handler builds: a null value, bytes that are not JSON,
\* an unknown event tag, no trade, a trade without id
ForeignMessages ==
  {[raw |-> "null", event |-> Undef, hasTrade |-> FALSE, trade |-> EmptyTrade],
   [raw |-> "text", event |-> Undef, hasTrade |-> FALSE, trade |-> EmptyTrade],
   [raw |-> "json", event |-> "TradeArchived", hasTrade |-> TRUE,
    trade |-> [EmptyTrade EXCEPT !.id = "t1"]],
   [raw |-> "json", event |-> "TradeDeleted", hasTrade |-> FALSE, trade |-> EmptyTrade],
   [raw |-> "json", event |-> "TradeDeleted", hasTrade |-> TRUE, trade |-> EmptyTrade]}

\* the broker appends a message to the partition
Publish ==
  /\ Len(topic) < MaxLog
  /\ \E m \in HandlerMessages \cup ForeignMessages : topic' = Append(topic, m)
  /\ UNCHANGED <<live, closed, pos, committed, cpc, outerN, innerN, held, span,
                 deliv, applied, resp, sent, pending, server, req, authVars, consumer, call, parts>>

(***************************************************************************)
(* The topic with more than one partition.  sendMessage gives              *)
(* producer.send a value and no key, so the partitioner is free to put the *)
(* message on any partition; the consumer is given the messages of each    *)
(* partition in offset order and the partitions in any order.              *)
(***************************************************************************)
\* the envelopes for trade t1 that the handlers publish here: its creation
\* and two updates of its entry price
PartitionMessages ==
  LET calls == {createLiveTrade(ValidLiveBody, "t1", AllOk)}
          \cup {updateLiveTrade("t1", [EmptyTrade EXCEPT !.entryPrice = x], AllOk) :
                  x \in {160, 170}}
  IN {c.published[1] : c \in calls}

\* eachMessage for one message at time now, from JSON.parse to its return
\* or throw, on a store that answers every call: the retries meet the same
\* answer
eachMessage(m, liveT, closedT, now) ==
  LET d == Decode(m)
      unchanged == [ok |-> FALSE, live |-> liveT, closed |-> closedT]
  IN IF ~d.ok THEN unchanged
     ELSE IF d.event \notin EventTypes THEN [unchanged EXCEPT !.ok = TRUE]
     ELSE IF ~d.hasTrade THEN unchanged
     ELSE IF d.event = "TradeCreated"
          THEN LET r == LiveTradeCreate(liveT, d.trade, now)
               IN [ok |-> r.err = "", live |-> r.table, closed |-> closedT]
     ELSE IF d.event = "TradeUpdated"
          THEN LET r == LiveTradeUpdate(liveT, d.trade.id, d.trade, now)
               IN [ok |-> r.err = "", live |-> r.table, closed |-> closedT]
     ELSE IF d.event = "TradeDeleted"
          THEN LET r == LiveTradeDelete(liveT, d.trade.id)
               IN [ok |-> r.err = "", live |-> r.table, closed |-> closedT]
     ELSE LET r == LiveTradeDelete(liveT, d.trade.id)
          IN IF r.err # "" THEN unchanged
             ELSE LET c == ClosedTradeCreate(closedT,
                             ClosedTradeData(d.trade.id, liveT[d.trade.id],
                                             d.trade.exitPrice, d.trade.fees), now)
                  IN [ok |-> c.err = "", live |-> r.table, closed |-> c.table]

\* producer.send({ topic, messages: [{ value }] }): the message goes to the
\* partition the partitioner picks
SendKeyless ==
  /\ parts.count < MaxPublished
  /\ \E m \in PartitionMessages, p \in Partitions :
        parts' = [parts EXCEPT !.logs[p] = Append(@, [n |-> parts.count + 1, value |-> m]),
                               !.count = @ + 1]
  /\ UNCHANGED <<topic, live, closed, pos, committed, cpc, outerN, innerN, held, span,
                 deliv, applied, resp, sent, pending, server, req, authVars, consumer, call>>

\* a read loop that is given any message of the partition
ConsumePartitionAny(p) ==
  /\ consumer.state = "running"
  /\ \E i \in 1..Len(parts.logs[p]) :
        /\ parts.logs[p][i].n \notin {parts.order[k] : k \in 1..Len(parts.order)}
        /\ LET r == eachMessage(parts.logs[p][i].value, live, closed, clock)
           IN /\ r.ok
              /\ live' = r.live
              /\ closed' = r.closed
              /\ parts' = [parts EXCEPT !.order = Append(@, parts.logs[p][i].n)]
  /\ UNCHANGED <<topic, pos, committed, cpc, outerN, innerN, held, span,
                 deliv, applied, resp, sent, pending, server, req, authVars, consumer, call>>

\* the read loop gives eachMessage the next message of partition p; when
\* eachMessage throws the offset stays and the message is delivered again
ConsumePartition(p) ==
  /\ consumer.state = "running"
  /\ parts.offsets[p] <= Len(parts.logs[p])
  /\ LET e == parts.logs[p][parts.offsets[p]]
         r == eachMessage(e.value, live, closed, clock)
     IN /\ live' = r.live
        /\ closed' = r.closed
        /\ parts' = IF r.ok
                    THEN [parts EXCEPT !.offsets[p] = @ + 1, !.order = Append(@, e.n)]
                    ELSE parts
  /\ UNCHANGED <<topic, pos, committed, cpc, outerN, innerN, held, span,
                 deliv, applied, resp, sent, pending, server, req, authVars, consumer, call>>

(***************************************************************************)
(* Specifications                                                          *)
(***************************************************************************)
ConsumerStep ==
  \/ Receive
  \/ NoCase
  \/ NoTrade
  \/ \E dbFault \in BOOLEAN : ApplyCreate(dbFault)
  \/ \E dbFault \in BOOLEAN : ApplyUpdate(dbFault)
  \/ \E dbFault \in BOOLEAN : ApplyDelete(dbFault)
  \/ \E dbFault \in BOOLEAN : ApplyCloseDelete(dbFault)
  \/ \E dbFault \in BOOLEAN : ApplyCloseCreate(dbFault)
  \/ Commit
  \/ Kill
  \/ Restart

\* the mutation handlers called for a client, with the broker failing or
\* accepting each producer.send, and for another client that deletes trades
\* meanwhile and whose sends the broker accepts
ApiStep ==
  \/ CreateRequest(Observed)
  \/ UpdateRequest(Observed)
  \/ \E c \in Callers : DeleteRequest(c)
  \/ CloseRequest(Observed)
  \/ \E err \in BrokerErrors : BrokerFails(Observed, err)
  \/ \E c \in Callers : BrokerAppends(c) \/ Acked(c)

\* the relay consumer on a topic any producer writes to
Next == Publish \/ (\E out \in ConnectOutcomes : StartConsumer(out)) \/ ConsumerStep \/ Tick
Spec == Init /\ [][Next]_vars

\* the server process: startup, the command emitters and the relay producer
NextApi == StartServer \/ ApiStep
SpecApi == Init /\ [][NextApi]_vars

\* the requests through the router, the broker accepting every
\* producer.send: a client whose jwt cookie is one of cookies, and, when
\* there are others, another client that deletes trades while the requests
\* of the first are served
Routes(cookies, others) ==
  \/ PostLive(Observed, cookies)
  \/ PutLive(Observed, cookies)
  \/ \E c \in {Observed} \cup others :
        DeleteLive(c, IF c = Observed THEN cookies ELSE SignedCookies)
  \/ PostLiveClose(Observed, cookies)
  \/ GetLive(Observed, cookies)
  \/ GetClosed(Observed, cookies)
  \/ \E c \in {Observed} \cup others :
        \/ \E id \in FreshIds \cup {Undef} : Authenticated(c, id)
        \/ \E dbDown \in BOOLEAN : FindMany(c, dbDown)
        \/ Replied(c)
        \/ BrokerAppends(c)
        \/ Acked(c)

RouteStep == Routes(JwtCookies, Callers \ {Observed})

\* the server process behind its router, with the broker accepting every send
NextHttp == StartServer \/ RouteStep
SpecHttp == Init /\ [][NextHttp]_vars

\* the requests to the auth router that are served in the slots
AuthRequests(slots, registerBodies, loginBodies) ==
  \E s \in slots :
     \/ \E body \in registerBodies : RegisterRead(s, slots, body)
     \/ RegisterWrite(s)
     \/ RegisterReply(s)
     \/ \E body \in loginBodies : LoginRead(s, slots, body)
     \/ LoginWrite(s)
     \/ LoginReply(s)
     \/ \E rt \in FlightCookies : RefreshRead(s, slots, rt)
     \/ RefreshLookup(s)
     \/ RefreshCheck(s)
     \/ RefreshWrite(s)
     \/ RefreshReply(s)
     \/ \E jwt \in JwtTokens, rt \in FlightCookies : LogoutRead(s, slots, jwt, rt)
     \/ LogoutWrite(s)
     \/ LogoutReply(s)

\* the clients are those of one person: their requests name one email
ClientEmail == "a@x.io"
ClientRegisterBodies == {b \in RegisterBodies : b.email = ClientEmail}
ClientLoginBodies == {b \in LoginBodies : b.email \in {ClientEmail, Undef}}

\* the watched client sends its next request when the last one was answered
AuthStep == AuthRequests({Watched}, ClientRegisterBodies, ClientLoginBodies) \/ Tick

\* the server process behind its auth router
NextAuth == StartServer \/ AuthStep
SpecAuth == Init /\ [][NextAuth]_vars

\* the consumer with the database answering every call and the process left
\* running, on a topic only the command emitters write to
RelayStep ==
  \/ Receive
  \/ ApplyCreate(FALSE)
  \/ ApplyUpdate(FALSE)
  \/ ApplyDelete(FALSE)
  \/ ApplyCloseDelete(FALSE)
  \/ ApplyCloseCreate(FALSE)
  \/ Commit
  \/ Restart

\* the mutation requests while the broker accepts every send
AcceptedStep ==
  \/ CreateRequest(Observed)
  \/ UpdateRequest(Observed)
  \/ \E c \in Callers : DeleteRequest(c)
  \/ CloseRequest(Observed)
  \/ \E c \in Callers : BrokerAppends(c) \/ Acked(c)

\* the whole relay: command emitters, broker, consumer, store.  The consumer
\* process is started, the broker accepts its connection, and it takes its
\* next step as long as it has one.
NextRelay == StartServer \/ AcceptedStep \/ StartConsumer(OK) \/ RelayStep
SpecRelay ==
  Init /\ [][NextRelay]_vars /\ WF_vars(StartConsumer(OK)) /\ WF_vars(RelayStep)

\* the same with nobody bound to start the consumer process: index.ts is
\* run, consumer.ts may or may not be
SpecIndex == Init /\ [][NextRelay]_vars /\ WF_vars(RelayStep)

\* the server behind its router together with the consumer and the store
NextTrades ==
  StartServer \/ Routes(SignedCookies, Callers \ {Observed}) \/ StartConsumer(OK)
    \/ RelayStep
SpecTrades == Init /\ [][NextTrades]_vars

\* the auth router with the requests of two clients overlapping
RaceStep == AuthRequests(Unwatched, ClientRegisterBodies, ClientLoginBodies)
NextRace == StartServer \/ RaceStep \/ Tick
SpecRace == Init /\ [][NextRace]_vars

\* the producer and one consumer on the partitioned topic
PartitionStep == SendKeyless \/ (\E p \in Partitions : ConsumePartition(p))
NextPartitions == StartConsumer(OK) \/ PartitionStep
SpecPartitions == Init /\ [][NextPartitions]_vars

\* the retried calls of the producer and of the consumer's start, each from
\* its call to its result, next to the start of the consumer process one
\* attempt at a time
RetryStep == ConnectProducerCall \/ StartConsumerCall \/ SendMessageCall
NextRetry == RetryStep \/ (\E out \in ConnectOutcomes : StartConsumer(out))
SpecRetry == Init /\ [][NextRetry]_vars

(***************************************************************************)
(* Properties                                                              *)
(***************************************************************************)
\* the decoded message at offset k of the topic
Msg(k) == Decode(topic[k])
\* offset k holds an envelope with one of the four event types
Recognized(k) == Msg(k).ok /\ Msg(k).event \in EventTypes
\* the delivery observed in deliv has ended
Ended == deliv.outcome \in {"Applied", "Failed"}

\* C1: an envelope with a recognized event type is acknowledged only after
\* its dispatch-and-retry sequence returned without error: a delivery that
\* ended with eachMessage returning has span OK and a store operation that
\* resolved, and every offset the read loop has passed or the group has
\* committed holds an envelope one of whose store operations succeeded.
C1_AckOnlyAfterApply ==
  /\ (deliv.outcome = "Applied" /\ Recognized(deliv.offset))
        => (span = "OK" /\ deliv.adapterOk >= 1 /\ deliv.offset \in applied)
  /\ committed <= pos
  /\ \A k \in 1..(pos - 1) : Recognized(k) => k \in applied

C1_Witness ==
  \E k \in 1..(committed - 1) : Recognized(k) /\ k \in applied

\* C2: when every apply attempt for an envelope failed, eachMessage has set
\* span status ERROR and thrown to the read loop; the envelope is not
\* acknowledged: neither the read position nor the committed offset is past
\* it, so the next envelope is not taken up.
C2_ExhaustedIsRethrown ==
  /\ (deliv.outcome = "Failed" /\ Msg(deliv.offset).ok)
        => (span = "ERROR" /\ pos <= deliv.offset /\ committed <= deliv.offset)
  /\ (cpc = "thrown" /\ Msg(deliv.offset).ok)
        => (deliv.outcome = "Failed" /\ outerN = 4 /\ pos = deliv.offset)

C2_Witness ==
  /\ cpc = "thrown"
  /\ span = "ERROR"
  /\ deliv.outcome = "Failed"
  /\ Recognized(deliv.offset)
  /\ deliv.dbCalls > 0
  /\ pos < Len(topic)

\* C3: a sendMessage whose first N sends fail, N in {0,1,2}, and whose next
\* send succeeds resolves without an error after N+1 sends, exactly one of
\* them successful; the envelope is on the topic once and the request is
\* answered 2xx.
C3_SendSucceedsAfterFailures ==
  (sent.called /\ sent.fails \in {0, 1, 2})
     => /\ sent.resolved
        /\ sent.error = ""
        /\ sent.span = "OK"
        /\ sent.attempts = sent.fails + 1
        /\ sent.okSends = 1
        /\ sent.enqueued = 1
        /\ resp.status \in 200..299

C3_Witness ==
  sent.called /\ sent.fails = 2 /\ sent.resolved /\ sent.enqueued = 1

\* C4 (as claimed): sendMessage makes at most 3 send attempts; when the
\* first 3 fail the error is surfaced.
C4_AtMostThreeSends ==
  sent.called => (sent.attempts <= 3 /\ (sent.fails >= 3 => ~sent.resolved))

\* C4 (amended): sendMessage makes at most 4 send attempts for one call, the
\* first one and 3 retries: when the first 4 attempts all fail the error is
\* surfaced to the caller, nothing is enqueued and no 5th send is attempted.
C4_AtMostFourSends ==
  sent.called
     => /\ sent.attempts <= 4
        /\ sent.fails >= 4
             => (~sent.resolved /\ sent.attempts = 4 /\ sent.error \in BrokerErrors
                 /\ sent.span = "ERROR" /\ sent.enqueued = 0)

C4_Witness ==
  sent.called /\ sent.fails = 4 /\ ~sent.resolved /\ sent.attempts = 4

\* C5: a mutation handler answers 2xx only if sendMessage resolved for the
\* request's envelope; if sendMessage rejects, the answer is 400 with the
\* message of the error sendMessage rejected with.
C5_PublishFailureIsBadRequest ==
  /\ resp.status \in 200..299 => (sent.called /\ sent.resolved /\ sent.enqueued = 1)
  /\ (sent.called /\ ~sent.resolved)
        => (resp.status = 400 /\ resp.error = sent.error /\ resp.error # "")

C5_Witness ==
  /\ resp.handler = "deleteLiveTrade"
  /\ sent.called
  /\ ~sent.resolved
  /\ resp.status = 400

\* C6: an envelope whose event tag is none of TradeCreated, TradeUpdated,
\* TradeDeleted, TradeClosed is rejected by the consumer with an error: its
\* delivery never ends with eachMessage returning normally.
C6_UnknownEventRejected ==
  (Ended /\ Msg(deliv.offset).ok /\ Msg(deliv.offset).event \notin EventTypes \cup {Undef})
     => deliv.outcome = "Failed"

\* C7: a message whose payload lacks the event tag or trade.id (a null or
\* empty value included) ends in an error before any store operation is
\* attempted: its delivery never ends as a success and no database call is
\* made for it.
C7_MalformedRejected ==
  (/\ Ended
   /\ Msg(deliv.offset).ok
   /\ \/ Msg(deliv.offset).event = Undef
      \/ ~Msg(deliv.offset).hasTrade
      \/ Msg(deliv.offset).trade.id = Undef)
     => (deliv.outcome = "Failed" /\ deliv.dbCalls = 0)

\* C8: applying a TradeClosed envelope for an id that has no live trade
\* because an earlier close already moved it to the closed trades does not
\* raise and leaves the closed-trade record in place.
C8_CloseIdempotent ==
  (/\ Ended
   /\ Msg(deliv.offset).ok
   /\ Msg(deliv.offset).event = "TradeClosed"
   /\ Msg(deliv.offset).hasTrade
   /\ ~deliv.liveAtStart
   /\ deliv.closedAtStart)
     => (deliv.outcome = "Applied" /\ Msg(deliv.offset).trade.id \in DOMAIN closed)

\* C9: whenever a close of an id that had a live trade has ended, with
\* success or after all retries, the id is a live trade or a closed trade.
C9_CloseIsOneStep ==
  (/\ Ended
   /\ Msg(deliv.offset).ok
   /\ Msg(deliv.offset).event = "TradeClosed"
   /\ Msg(deliv.offset).hasTrade
   /\ deliv.liveAtStart)
     => Msg(deliv.offset).trade.id \in (DOMAIN live \cup DOMAIN closed)

\* C10: in every reachable state of the store no trade id is both a live
\* trade and a closed trade.
C10_LiveClosedDisjoint ==
  DOMAIN live \cap DOMAIN closed = {}

\* C11: re-applying an envelope that was already applied (redelivery after a
\* crash before the commit), with the database answering every call, does
\* not fail: the delivery ends with eachMessage returning normally.
C11_DuplicateTolerated ==
  (/\ Ended
   /\ Recognized(deliv.offset)
   /\ Msg(deliv.offset).hasTrade
   /\ deliv.redelivered
   /\ ~deliv.faulted)
     => deliv.outcome = "Applied"

\* the LiveTrade row that holds the fields of a trade a create request
\* returned
RowOf(trade) ==
  [id |-> trade.id, accountId |-> trade.accountId, symbol |-> trade.symbol,
   entryPrice |-> trade.entryPrice, tradeType |-> trade.tradeType,
   size |-> trade.size, qty |-> trade.qty, slPercentage |-> trade.slPercentage,
   entryDate |-> trade.entryDate]

\* the trade a create request for ValidLiveBody returns when it is given id
CreatedTrade(id) == createLiveTrade(ValidLiveBody, id, AllOk).resp.trade

\* the TradeCreated envelope of trade id is on the topic and eachMessage has
\* not returned for it
Outstanding(id) ==
  \E k \in 1..Len(topic) :
     /\ topic[k].event = "TradeCreated" /\ topic[k].trade.id = id
     /\ pos <= k

\* C12: a create request answered 201 with trade id X leads, with the broker
\* and the database available and the consumer running, to a store whose
\* live trade X has the fields of the trade in the response.  Stated for a
\* create whose envelope the consumer has still to apply when the 201 is
\* written: of an envelope it has applied by then the trade was stored.
C12_CreatedEventuallyLive ==
  \A id \in Ids :
     (resp.status = CREATED /\ resp.trade = CreatedTrade(id) /\ Outstanding(id))
        ~> (/\ id \in DOMAIN live
            /\ \A f \in DOMAIN RowOf(CreatedTrade(id)) :
                  live[id][f] = RowOf(CreatedTrade(id))[f])

\* C13: a TradeClosed(id, exitPrice, fees) applied to live trade L removes L
\* from the live trades, and the closed record it creates has
\* realizedPL = (exitPrice - L.entryPrice) * L.qty - fees, fees counting as 0
\* when absent, and accountId, symbol, entryPrice, tradeType, size, qty and
\* entryDate copied from L.
C13_CloseComputesRealizedPL ==
  [][/\ (cpc = "attempt" /\ cpc' = "closeCreate")
          => /\ data.trade.id \in DOMAIN live
             /\ held' = live[data.trade.id]
             /\ data.trade.id \notin DOMAIN live'
     /\ (cpc = "closeCreate" /\ deliv'.outcome = "Applied")
          => /\ data.trade.id \notin DOMAIN live'
             /\ data.trade.id \in DOMAIN closed'
             /\ LET c == closed'[data.trade.id]
                    exitPrice == data.trade.exitPrice
                    fees == data.trade.fees
                IN /\ c.realizedPL = (exitPrice - held.entryPrice) * held.qty
                                        - (IF fees = NoNum THEN 0 ELSE fees)
                   /\ c.exitPrice = exitPrice
                   /\ c.accountId = held.accountId
                   /\ c.symbol = held.symbol
                   /\ c.entryPrice = held.entryPrice
                   /\ c.tradeType = held.tradeType
                   /\ c.size = held.size
                   /\ c.qty = held.qty
                   /\ c.entryDate = held.entryDate]_vars

\* entry 150, exit 160, qty 10, fees 5 gives 95
C13_Witness ==
  /\ deliv.outcome = "Applied"
  /\ Msg(deliv.offset).event = "TradeClosed"
  /\ "t1" \notin DOMAIN live
  /\ "t1" \in DOMAIN closed
  /\ closed["t1"].entryPrice = 150
  /\ closed["t1"].exitPrice = 160
  /\ closed["t1"].qty = 10
  /\ closed["t1"].fees = 5
  /\ closed["t1"].realizedPL = 95

\* C14: the HTTP server listens only after connectProducer has resolved, and
\* requests are taken only by a listening server; when connectProducer has
\* used up its attempts (the first and 5 retries) startServer has failed
\* without listening, and a server that failed has answered no request and
\* published nothing.
C14_ListenOnlyAfterConnect ==
  /\ server.state = "listening" => server.producer = "connected"
  /\ server.state = "failed"
        => (server.producer = "disconnected" /\ server.connectN = 6)
  /\ (\/ resp # NoResponse \/ sent # NoSend \/ topic # <<>>
      \/ \E c \in Callers : pending[c] # NoPending)
        => server.state = "listening"
  /\ server.connectN <= 6

C14_Witness ==
  /\ server.state = "failed"
  /\ server.connectN = 6
  /\ resp = NoResponse
  /\ pending[Observed] = NoPending
  /\ topic = <<>>

\* C15: the mutation handlers and sendMessage never modify the live or the
\* closed trades: a step that takes a request up, calls sendMessage, appends
\* to the topic or answers leaves both tables as they are, and every step
\* that changes a table is a step of the consumer applying an envelope.
C15_HandlersLeaveStoreAlone ==
  [][/\ (resp' # resp \/ sent' # sent \/ topic' # topic \/ pending' # pending)
          => (live' = live /\ closed' = closed)
     /\ (live' # live \/ closed' # closed)
          => /\ cpc \in {"attempt", "closeCreate"}
             /\ pos \in 1..Len(topic)
             /\ resp' = resp /\ sent' = sent /\ topic' = topic
             /\ pending' = pending]_vars

\* a delete request for live trade t1 has been answered 204 and its envelope
\* is on the topic, and t1 is still a live trade
C15_Witness ==
  /\ resp.handler = "deleteLiveTrade"
  /\ resp.status = NO_CONTENT
  /\ sent.resolved
  /\ Len(topic) = 2
  /\ topic[2].event = "TradeDeleted"
  /\ topic[2].trade.id \in DOMAIN live
  /\ pos = 2

\* the request came through authenticateJWT to the handler of its route
Reached == req.route # "none" /\ req.user # Undef

\* the request of the observed client is answered in this step
Answers == req = NoRequest /\ req' # NoRequest

\* C16: when the body of a create or close request fails the schema of its
\* handler, the response is 400 with an error message, sendMessage is not
\* called for the request and nothing is appended to the topic.
C16_InvalidBodyNotPublished ==
  [][(/\ Answers
      /\ req'.user # Undef
      /\ \/ req'.route = "POST /live" /\ ~liveTradeSchema(req'.body)
         \/ req'.route = "POST /live/:id/close" /\ ~closeTradeSchema(req'.body))
       => /\ resp'.status = 400
          /\ resp'.error # ""
          /\ ~sent'.called
          /\ topic' = topic]_vars

C16_Witness ==
  /\ Reached
  /\ req.route = "POST /live/:id/close"
  /\ req.body.exitPrice = BadNum
  /\ resp.handler = "closeLiveTrade"
  /\ resp.status = 400
  /\ Len(topic) = 1

\* a body carries a value that is not of the type of its field
HasInvalidValue(body) ==
  BadNum \in {body.entryPrice, body.qty, body.slPercentage, body.exitPrice, body.fees}

\* C17: updateLiveTrade responds 400 and publishes no envelope whenever the
\* request body carries a field with an invalid value, exitPrice given as a
\* non-numeric string included.
C17_InvalidUpdateRejected ==
  (Reached /\ req.route = "PUT /live/:id" /\ HasInvalidValue(req.body))
     => (resp.status = 400 /\ ~sent.called)

\* C18: an update, delete or close request for an id that has no live trade
\* is answered 404 'Trade not found', never 2xx.
C18_MissingTradeNotFound ==
  (/\ Reached
   /\ req.route \in {"PUT /live/:id", "DELETE /live/:id", "POST /live/:id/close"}
   /\ req.id \notin DOMAIN live)
     => (resp.status = 404 /\ resp.error = "Trade not found")

\* the cookie holds a token with a good signature that names a user
ValidJwt(cookie) == cookie.jwt = "signed" /\ cookie.userId \in Users

\* C19: a request to any /api/trades route without a valid jwt cookie
\* (missing, bad signature, naming a user that does not exist) does not
\* reach a trade handler: the middleware answers it, sendMessage is not
\* called, nothing is appended to the topic and no store read is made.
C19_RoutesProtected ==
  [][(Answers /\ ~ValidJwt(req'.cookie))
       => /\ resp'.handler = "authenticateJWT"
          /\ req'.user = Undef
          /\ ~sent'.called
          /\ req'.reads = 0
          /\ topic' = topic]_vars

C19_Witness ==
  /\ req.route = "GET /live"
  /\ req.body.accountId = "a1"
  /\ req.cookie = [jwt |-> "signed", userId |-> "u9"]
  /\ resp.handler = "authenticateJWT"
  /\ req.reads = 0
  /\ Len(topic) = 1

\* C20: a request rejected by authenticateJWT is answered with status 401
\* and body {error: 'Unauthorized'}.
C20_RejectedIsUnauthorized ==
  (req.route # "none" /\ req.user = Undef)
     => (resp.status = 401 /\ resp.error = "Unauthorized")

(***************************************************************************)
(* The auth router                                                         *)
(***************************************************************************)
\* the steps of a request of the watched client: it is answered before it
\* writes (authReq' is the request), it gets past its reads, its write takes
\* effect or is rejected, it is answered after its write took effect, it is
\* answered having got past its reads (authReq' is the request)
EndsAtRead ==
  /\ clock' = clock /\ server' = server
  /\ flight[Watched].phase \in {"idle", "found"} /\ flight'[Watched].phase = "idle"
Passes(route) ==
  /\ flight[Watched].phase # "read" /\ flight'[Watched].phase = "read"
  /\ flight'[Watched].route = route
Writes(route) ==
  /\ flight[Watched].phase = "read" /\ flight'[Watched].phase # "read"
  /\ flight[Watched].route = route
Replies(route) ==
  /\ flight[Watched].phase = "wrote" /\ flight'[Watched].phase # "wrote"
  /\ flight[Watched].route = route
AnsweredAfterRead(route) ==
  /\ flight[Watched].phase \in {"read", "wrote"} /\ flight'[Watched].phase = "idle"
  /\ flight[Watched].route = route

EmailTaken(email) == \E u \in users : u.email = email

\* what a 409 of register comes with: the error, no row created, no cookie
RegisterConflict ==
  /\ authRes'.status = 409
  /\ authRes'.error = "Registration failed: Email already exists"
  /\ users' = users
  /\ accounts' = accounts
  /\ refreshTokens' = refreshTokens
  /\ authRes'.cookie = NoCookies

\* C21 (as claimed): register with an email that already belongs to a user
\* responds 409 'Registration failed: Email already exists', creates no user,
\* account or refresh token, and sets no cookies.
C21_TakenEmailConflict ==
  [][/\ (/\ EndsAtRead
         /\ authReq'.route = "POST /register"
         /\ EmailTaken(authReq'.body.email))
          => RegisterConflict
     /\ Passes("POST /register") => ~EmailTaken(flight'[Watched].body.email)]_vars

\* C21 (amended): register with a body that passes registerSchema and an
\* email that belongs to a user when the handler looks it up responds 409
\* 'Registration failed: Email already exists', creates no user, account or
\* refresh token, and sets no cookies; a body that fails the schema is
\* answered 400 whoever has the email.
C21_ValidTakenEmailConflict ==
  [][/\ (/\ EndsAtRead
         /\ authReq'.route = "POST /register"
         /\ EmailTaken(authReq'.body.email))
          => IF registerSchema(authReq'.body)
             THEN RegisterConflict
             ELSE /\ authRes'.status = 400
                  /\ users' = users
                  /\ accounts' = accounts
                  /\ refreshTokens' = refreshTokens
                  /\ authRes'.cookie = NoCookies
     /\ Passes("POST /register") => ~EmailTaken(flight'[Watched].body.email)]_vars

C21_Witness ==
  /\ authReq.route = "POST /register"
  /\ registerSchema(authReq.body)
  /\ EmailTaken(authReq.body.email)
  /\ authRes.status = 409
  /\ authRes.error = "Registration failed: Email already exists"
  /\ authRes.cookie = NoCookies
  /\ Cardinality(users) = 1
  /\ Cardinality(accounts) = 1
  /\ Cardinality(refreshTokens) = 1

\* the refresh token is stored and has not expired, when the handler looks
\* it up
StoredUnexpired(token) ==
  LET storedToken == StoredToken(refreshTokens, token)
  IN storedToken # NoStoredToken /\ ~(storedToken.expiresAt < clock)

\* C22: a POST /api/auth/refresh request carrying a refresh token that is
\* stored and not expired responds 200 'Token refreshed successfully', sets a
\* new jwt cookie and a new refreshToken cookie, and the store then holds the
\* new refresh token for that user.
C22_RefreshSucceeds ==
  [][/\ (/\ EndsAtRead
         /\ authReq'.route = "POST /refresh"
         /\ StoredUnexpired(authReq'.cookies.refreshToken))
          => authRes'.status = 200
     /\ AnsweredAfterRead("POST /refresh")
          => /\ authRes'.status = 200
             /\ authRes'.message = "Token refreshed successfully"
             /\ authRes'.cookie.jwt # NoToken
             /\ authRes'.cookie.refreshToken # NoToken
             /\ \E r \in refreshTokens' :
                   /\ r.token = authRes'.cookie.refreshToken
                   /\ r.userId = authReq'.cookies.refreshToken.userId]_vars

\* C23: refresh with no refreshToken cookie, with a token that is not in the
\* store, or with a stored token whose expiresAt is in the past responds
\* 401, sets no cookies, and leaves the stored refresh tokens unchanged: a
\* refresh gets past its lookup only with a token that is stored and has not
\* expired then, and one that does not is answered so.
C23_RefreshRejected ==
  [][/\ (EndsAtRead /\ authReq'.route = "POST /refresh")
          => /\ authRes'.status = 401
             /\ authRes'.error \in {"No refresh token provided", "Invalid refresh token"}
             /\ authRes'.cookie = NoCookies
             /\ refreshTokens' = refreshTokens
     /\ Passes("POST /refresh")
          => StoredUnexpired(flight'[Watched].cookies.refreshToken)]_vars

\* a refresh with a stored token that has expired was answered 401
C23_Witness ==
  /\ authReq.route = "POST /refresh"
  /\ authRes.status = 401
  /\ authRes.error = "Invalid refresh token"
  /\ authRes.cookie = NoCookies
  /\ \E r \in refreshTokens :
        r.token = authReq.cookies.refreshToken /\ r.expiresAt < clock

\* the logout handler answers 200 'Logout successful', clears both cookies,
\* and deletes the stored refresh tokens equal to the cookie, if one was sent
LogoutClears ==
  /\ AnsweredAfterRead("POST /logout")
       => /\ authRes'.status = 200
          /\ authRes'.message = "Logout successful"
          /\ authRes'.clearCookie = {"jwt", "refreshToken"}
          /\ authReq'.cookies.refreshToken \notin {r.token : r \in refreshTokens'}
  /\ Writes("POST /logout")
       => refreshTokens' =
            {r \in refreshTokens : r.token # flight[Watched].cookies.refreshToken}

\* a refresh that presents the token which the last logout was sent is
\* answered 401
RevokedRejected ==
  /\ (EndsAtRead /\ authReq'.route = "POST /refresh" /\ revoked # NoToken
        /\ authReq'.cookies.refreshToken = revoked)
       => authRes'.status = 401
  /\ (Passes("POST /refresh") /\ revoked # NoToken)
       => flight'[Watched].cookies.refreshToken # revoked

\* C24: logout responds 200 'Logout successful' and clears the jwt and
\* refreshToken cookies whether or not a refreshToken cookie was sent; when
\* one was sent, every stored refresh token equal to it is deleted, so a
\* later refresh presenting it responds 401.
C24_LogoutInvalidatesToken == [][LogoutClears /\ RevokedRejected]_vars

(***************************************************************************)
(* The processes                                                           *)
(***************************************************************************)
\* the server listens and a handler has published the first envelope
FirstPublished ==
  /\ server.state = "listening"
  /\ topic # <<>>
  /\ topic[1].event = "TradeCreated"

\* C25: the Kafka consumer runs within the server process started from
\* index.ts: after startServer completes, envelopes published by the handlers
\* are consumed and applied to the store without a separately started
\* consumer process.
C25_ConsumedWithinServer == FirstPublished ~> (1 \in applied)

(***************************************************************************)
(* The consumer's retries and read loop                                    *)
(***************************************************************************)
\* C26 (as claimed): for one delivery of one envelope the consumer invokes
\* the store adapter operation at most 3 times, each invocation issues at
\* most 3 database calls, and at most 9 database calls are made before the
\* envelope is declared Failed.
C26_AtMostNineDbCalls ==
  /\ outerN <= 3
  /\ innerN <= 3
  /\ deliv.dbCalls <= 9

\* C26 (amended): for one delivery of one envelope the consumer invokes the
\* store adapter operation at most 4 times and each invocation runs its
\* database function at most 4 times; at most 16 database calls are made
\* for a TradeCreated, TradeUpdated or TradeDeleted and at most 17 for a
\* TradeClosed (whose first run can issue the delete and the create) before
\* the envelope is declared Failed.
C26_AtMostSeventeenDbCalls ==
  /\ outerN <= 4
  /\ innerN <= 4
  /\ deliv.dbCalls <= 17
  /\ (deliv.offset >= 1 /\ Msg(deliv.offset).ok
        /\ Msg(deliv.offset).event # "TradeClosed") => deliv.dbCalls <= 16

\* a TradeClosed was declared Failed after 17 database calls
C26_Witness ==
  /\ cpc = "thrown"
  /\ deliv.outcome = "Failed"
  /\ outerN = 4
  /\ innerN = 4
  /\ deliv.dbCalls = 17
  /\ Msg(deliv.offset).event = "TradeClosed"

\* C27: a consumer instance never processes two envelopes at the same time:
\* processing of the next envelope begins only after the previous envelope
\* reached Applied or Failed, including all of its retries and backoff
\* waits.  While eachMessage works on an envelope it is the one at the read
\* position; the delivery observed moves to another offset only when
\* eachMessage is idle and the delivery before it has ended.
C27_OneEnvelopeAtATime ==
  /\ []((cpc \in {"attempt", "closeCreate"})
          => (deliv.outcome = "Pending" /\ deliv.offset = pos))
  /\ [][(deliv'.offset # deliv.offset)
          => (cpc = "idle" /\ deliv.outcome \in {"None", "Applied", "Failed"})]_vars

\* the second envelope is being retried, after the first one was applied
C27_Witness ==
  /\ cpc = "attempt"
  /\ deliv.offset = 2
  /\ deliv.outcome = "Pending"
  /\ outerN > 1
  /\ 1 \in applied
  /\ pos = 2

Terminal == {"Applied", "Failed"}
Dispatching == cpc \in {"attempt", "closeCreate"}

\* C28: every delivery of an envelope goes Received, then Dispatching, and
\* eventually reaches exactly one of the terminal states Applied or Failed:
\* a delivery that was received is dispatching until it ends, it ends at its
\* own offset after finitely many steps, it ends from Dispatching only, the
\* span status agrees with the way it ended, and once it ended its record
\* changes only when eachMessage is idle and receives a delivery again.
C28_DeliveryTerminates ==
  /\ \A k \in 1..MaxLog :
        (deliv.offset = k /\ deliv.outcome = "Pending")
          ~> (deliv.offset = k /\ deliv.outcome \in Terminal)
  /\ [](deliv.outcome = "Pending" => Dispatching)
  /\ []((deliv.outcome = "Applied" => span = "OK")
          /\ (deliv.outcome = "Failed" => span = "ERROR"))
  /\ [][(deliv'.outcome \in Terminal /\ deliv' # deliv)
          => (deliv.outcome = "Pending" /\ Dispatching
                /\ deliv'.offset = deliv.offset)]_vars
  /\ [][(deliv.outcome \in Terminal /\ deliv' # deliv)
          => (cpc = "idle" /\ deliv'.outcome = "Pending"
                /\ deliv'.dbCalls = 0)]_vars

\* a delivery that used up both retry budgets and ended Failed
C28_Witness ==
  /\ deliv.outcome = "Failed"
  /\ cpc = "thrown"
  /\ span = "ERROR"
  /\ outerN = ApplyRetries + 1
  /\ innerN = DbRetries + 1
  /\ deliv.dbCalls >= 16

ConnectSites == {"connectProducer", "startConsumer"}
Thrown(c, e) == Cardinality({i \in 1..c.attempts : c.outs[i] = e})

\* what the claim says of the two connect retries apart from the error they
\* reject with: the call resolves with the first attempt that succeeds,
\* makes at most 6 attempts, waits at least 1 s, 2 s, 4 s, 8 s, 16 s before
\* its retries, rejects only after 6 failed attempts, and the read loop runs
\* only when connect and subscribe succeeded in one attempt
ConnectRetried ==
  /\ call.site \in ConnectSites =>
       /\ call.attempts >= 1 /\ call.attempts <= 6
       /\ \A i \in 1..(call.attempts - 1) : call.outs[i] # OK
       /\ call.resolved <=> call.outs[call.attempts] = OK
       /\ ~call.resolved => call.attempts = 6
       /\ Len(call.waits) = call.attempts - 1
       /\ \A k \in 1..Len(call.waits) :
             call.waits[k] >= <<1000, 2000, 4000, 8000, 16000>>[k]
       /\ call.run => (call.resolved /\ call.outs[call.attempts] = OK)
       /\ (call.site = "startConsumer" /\ call.resolved) => call.run
  /\ consumer.state = "running" => (consumer.connected /\ consumer.subscribed)
  /\ consumer.connectN <= 6

\* C29 as stated: connectProducer and the consumer's connect-and-subscribe
\* step resolve as soon as one attempt succeeds, make at most 6 attempts
\* with minimum waits of 1 s, 2 s, 4 s, 8 s, 16 s, and reject with the last
\* error when all attempts fail; the read loop is started only after connect
\* and subscribe both succeeded in the same attempt.
C29_RejectsWithLastError ==
  /\ ConnectRetried
  /\ (call.site \in ConnectSites /\ ~call.resolved)
       => call.error = call.lastError

\* C29 amended: as above, but the call rejects with the error that the
\* attempts threw most often, the later one when two were thrown equally
\* often; that is the last error whenever no other error was thrown more
\* often than it.
C29_RejectsWithMainError ==
  /\ ConnectRetried
  /\ (call.site \in ConnectSites /\ ~call.resolved)
       => /\ Thrown(call, call.error) >= 1
          /\ \A i \in 1..call.attempts :
                Thrown(call, call.outs[i]) <= Thrown(call, call.error)
          /\ Thrown(call, call.lastError) = Thrown(call, call.error)
                => call.error = call.lastError

\* startConsumer gave up after six attempts with minimal waits; the last
\* attempt failed in subscribe, most of them in connect
C29_Witness ==
  /\ call.site = "startConsumer"
  /\ ~call.resolved
  /\ ~call.run
  /\ call.attempts = 6
  /\ call.waits = <<1000, 2000, 4000, 8000, 16000>>
  /\ call.lastError = "subscribe failed"
  /\ call.error = "connect failed"

RECURSIVE Sum(_)
Sum(seq) == IF seq = <<>> THEN 0 ELSE seq[1] + Sum(Tail(seq))

\* C30: when sendMessage fails on every attempt, the wait before retry k is
\* at least 500 * 2^(k-1) ms and the waits before the error is surfaced add
\* up to at least 500 + 1000 = 1500 ms.
C30_SendBackoff ==
  (call.site = "sendMessage" /\ ~call.resolved)
    => /\ \A i \in 1..call.attempts : call.outs[i] # OK
       /\ Len(call.waits) = call.attempts - 1
       /\ \A k \in 1..Len(call.waits) : call.waits[k] >= 500 * (2 ^ (k - 1))
       /\ Sum(call.waits) >= 500 + 1000

\* every send failed and every wait was as short as it can be
C30_Witness ==
  /\ call.site = "sendMessage"
  /\ ~call.resolved
  /\ call.attempts = SendRetries + 1
  /\ call.waits = <<500, 1000, 2000>>
  /\ Sum(call.waits) = 3500

\* the envelope that the mutation handler of request p builds
BuiltEnvelope(p) ==
  IF p.q.route = "POST /live" THEN TradeCreatedEnvelope(p.tid, StripToLive(p.q.body))
  ELSE IF p.q.route = "PUT /live/:id"
       THEN TradeUpdatedEnvelope(p.q.id, StripToLive(p.q.body))
  ELSE IF p.q.route = "DELETE /live/:id" THEN TradeDeletedEnvelope(p.q.id)
  ELSE TradeClosedEnvelope(p.q.id, p.q.body.exitPrice, p.q.body.fees)

\* the broker appends the message of client c's request in this step
Appends(c) == pending[c].phase = "send" /\ pending'[c].phase = "acked"

\* what the consumer reads from the message appended in this step
DecodedLast == Decode(topic'[Len(topic')])

\* C31: for every envelope e that the handlers can build, decoding the
\* encoded envelope as the consumer does yields an envelope equal to e: same
\* event tag, same trade fields, same values.
C31_RoundTrip ==
  [][Appends(Observed)
       => /\ Len(topic') = Len(topic) + 1
          /\ DecodedLast.ok
          /\ DecodedLast.event = BuiltEnvelope(pending[Observed]).event
          /\ DecodedLast.trade = BuiltEnvelope(pending[Observed]).trade]_vars

\* the partition that holds the message published n-th, and the message
PartitionOf(n) ==
  CHOOSE p \in Partitions : \E i \in 1..Len(parts.logs[p]) : parts.logs[p][i].n = n
PublishedNth(n) ==
  LET p == PartitionOf(n)
  IN Decode(parts.logs[p][CHOOSE i \in 1..Len(parts.logs[p]) : parts.logs[p][i].n = n].value)

\* C32: with more than one partition on the topic, two envelopes for the
\* same trade id published in the order e1 then e2 can be applied to the
\* store in the order e2 then e1, because published messages carry no
\* partition key derived from trade.id.  Messages are applied out of their
\* publish order only when they lie on different partitions (the state
\* C32_Witness shows that this happens for one trade id).
C32_ReorderedAcrossPartitions ==
  \A a, b \in 1..Len(parts.order) :
     (a < b /\ parts.order[a] > parts.order[b])
       => PartitionOf(parts.order[a]) # PartitionOf(parts.order[b])

\* t1 was created, then its entry price was set to 160 (e1) and then to 170
\* (e2); e2 was applied before e1 and the row holds 160
C32_Witness ==
  /\ parts.count = 3
  /\ parts.order = <<1, 3, 2>>
  /\ PublishedNth(2).event = "TradeUpdated" /\ PublishedNth(2).trade.id = "t1"
  /\ PublishedNth(2).trade.entryPrice = 160
  /\ PublishedNth(3).event = "TradeUpdated" /\ PublishedNth(3).trade.id = "t1"
  /\ PublishedNth(3).trade.entryPrice = 170
  /\ PartitionOf(2) # PartitionOf(3)
  /\ live["t1"].entryPrice = 160

\* eachMessage applies the TradeUpdated envelope at the read position
UpdateApplied ==
  /\ cpc = "attempt"
  /\ data.event = "TradeUpdated"
  /\ deliv'.outcome = "Applied"

\* column f of the row after an update with the value v of the envelope
Updated(old, new, f, v, absent) == new[f] = IF v = absent THEN old[f] ELSE v

\* what an applied TradeUpdated envelope leaves alone and what it sets of the
\* six columns the handler passes on
UpdateFrame ==
  LET t == data.trade
      old == live[t.id]
      new == live'[t.id]
  IN /\ t.id \in DOMAIN live
     /\ DOMAIN live' = DOMAIN live
     /\ \A k \in DOMAIN live \ {t.id} : live'[k] = live[k]
     /\ closed' = closed
     /\ new.id = old.id
     /\ new.accountId = old.accountId
     /\ new.entryDate = old.entryDate
     /\ new.createdAt = old.createdAt
     /\ Updated(old, new, "symbol", t.symbol, Undef)
     /\ Updated(old, new, "entryPrice", t.entryPrice, NoNum)
     /\ Updated(old, new, "tradeType", t.tradeType, Undef)
     /\ Updated(old, new, "size", t.size, Undef)
     /\ Updated(old, new, "qty", t.qty, NoNum)
     /\ Updated(old, new, "slPercentage", t.slPercentage, NoNum)

\* C33 (as claimed): applying a TradeUpdated envelope changes only those of
\* symbol, entryPrice, tradeType, size, qty, slPercentage that are present
\* in the envelope, on the live trade with the envelope's id; every other
\* column of that trade, every other live trade, and the closed set are
\* unchanged.
C33_UpdateFrame ==
  [][UpdateApplied =>
       /\ UpdateFrame
       /\ live'[data.trade.id].updatedAt = live[data.trade.id].updatedAt]_vars

\* one of the six columns is present in the envelope's trade
CarriesColumn(t) ==
  \/ {t.symbol, t.tradeType, t.size} # {Undef}
  \/ {t.entryPrice, t.qty, t.slPercentage} # {NoNum}

\* C33 (amended): applying a TradeUpdated envelope changes, on the live
\* trade with the envelope's id, only those of symbol, entryPrice, tradeType,
\* size, qty, slPercentage that are present in the envelope, and, when one
\* of them is present, updatedAt, which becomes the time of the update; that
\* trade's id, accountId, entryDate, createdAt and absent fields, every
\* other live trade, and the closed set are unchanged.
C33_UpdateFrameAndUpdatedAt ==
  [][UpdateApplied =>
       /\ UpdateFrame
       /\ live'[data.trade.id].updatedAt =
            IF CarriesColumn(data.trade) THEN AsDate(clock)
            ELSE live[data.trade.id].updatedAt]_vars

\* a TradeUpdated envelope that carries the entry price only was applied,
\* a second after its creation, to the trade that the envelope before it
\* created
C33_Witness ==
  /\ deliv.outcome = "Applied"
  /\ deliv.offset = 2
  /\ Decode(topic[2]).event = "TradeUpdated"
  /\ Decode(topic[2]).trade.entryPrice = 160
  /\ Decode(topic[2]).trade.qty = NoNum
  /\ Decode(topic[2]).trade.id \in DOMAIN live
  /\ live[Decode(topic[2]).trade.id].entryPrice = 160
  /\ live[Decode(topic[2]).trade.id].qty = 10
  /\ live[Decode(topic[2]).trade.id].symbol = "AAPL"
  /\ live[Decode(topic[2]).trade.id].createdAt = AsDate(0)
  /\ live[Decode(topic[2]).trade.id].updatedAt = AsDate(1000)

\* C34: with the broker and the store always available and the consumer
\* restarted after each failure, every envelope the handlers can publish,
\* including a TradeUpdated, TradeDeleted or TradeClosed for an id that has
\* no live trade, is eventually acknowledged; the consumer never stays
\* forever on one envelope of a partition.
C34_EveryEnvelopeAcknowledged ==
  \A k \in 1..MaxLog : (Len(topic) >= k) ~> (committed > k)

\* the refresh handler replaced the stored token that the request presented
\* and set the cookies (it looks at req.user only afterwards)
RefreshRotated ==
  /\ authReq.route = "POST /refresh"
  /\ authRes.cookie.refreshToken # NoToken

\* C35: refresh tokens are rotated: after a refresh that succeeds with token
\* t, t is no longer in the store, and a later refresh presenting t responds
\* 401 (stated for the refresh that follows it).
C35_RefreshRotates ==
  [][/\ (Replies("POST /refresh") /\ RefreshRotated')
          => authReq'.cookies.refreshToken \notin {r.token : r \in refreshTokens'}
     /\ (RefreshRotated /\ Passes("POST /refresh"))
          => flight'[Watched].cookies.refreshToken # authReq.cookies.refreshToken]_vars


\* the refresh in slot s replaced the stored row: its transaction committed
Replaced(f) ==
  /\ f.route = "POST /refresh" /\ f.phase = "done"
  /\ f.status = INTERNAL_SERVER_ERROR /\ f.alive

\* the refresh in slot s replaced the stored token while another request to
\* the auth router was between its reads and its write
ReplacedWhileOverlapping(s) ==
  /\ Replaced(flight[s])
  /\ flight[Other(s)].phase = "read"

\* C36: with requests to the auth router overlapping, a user never has more
\* than one stored refresh token
C36_OneTokenPerUser ==
  \A u \in {UserIds[i] : i \in 1..Len(UserIds)} :
     Cardinality({r \in refreshTokens : r.userId = u}) <= 1
C36_Witness ==
  /\ \E s \in Unwatched : ReplacedWhileOverlapping(s) /\ flight[Other(s)].raced
  /\ refreshTokens # {}

\* the two unwatched slots hold refresh requests that presented the same
\* token, were given its row by their lookups and were between lookup and
\* transaction at the same time
SameTokenRefreshes(fl) ==
  /\ \A s \in Unwatched : fl[s].route = "POST /refresh" /\ fl[s].raced
  /\ fl[2].cookies.refreshToken = fl[3].cookies.refreshToken

\* C37: when the second of two concurrent refresh requests with the same
\* refresh token, which both found stored and unexpired, has answered, at
\* most one of the two answered 200, at most one of the two replaced the
\* stored row and got the new cookies, and the store holds exactly one
\* refresh token of the token's user.  Concurrent: each was given the row
\* before the transaction of the other ran
C37_ConcurrentRefresh ==
  [][(/\ SameTokenRefreshes(flight')
      /\ \E s \in Unwatched : flight[s].phase # "done"
      /\ \A s \in Unwatched : /\ flight'[s].phase = "done"
                               /\ flight'[s].status # UNAUTHORIZED)
       => /\ Cardinality({s \in Unwatched : flight'[s].status = HTTP_OK}) <= 1
          /\ Cardinality({s \in Unwatched : Replaced(flight'[s])}) <= 1
          /\ Cardinality({r \in refreshTokens' :
                            r.userId = flight'[2].cookies.refreshToken.userId}) = 1]_vars
C37_Witness ==
  /\ SameTokenRefreshes(flight)
  /\ \A s \in Unwatched : /\ flight[s].phase = "done"
                           /\ flight[s].status = INTERNAL_SERVER_ERROR
  /\ \E s \in Unwatched : Replaced(flight[s]) /\ ~Replaced(flight[Other(s)])
  /\ flight[2].cookies.refreshToken \notin {r.token : r \in refreshTokens}
  /\ Cardinality({r \in refreshTokens : r.userId = flight[2].cookies.refreshToken.userId}) = 1

\* the two unwatched slots hold register requests with the same email that were past the
\* existing-user check at the same time
SameEmailRegisters(fl) ==
  /\ \A s \in Unwatched : fl[s].route = "POST /register" /\ fl[s].raced
  /\ fl[2].body.email = fl[3].body.email

\* the register in slot s, one of two with the same email, loses in this step
RegisterLoses(s) ==
  /\ SameEmailRegisters(flight')
  /\ flight[s].phase = "read" /\ flight'[s].phase = "done"
  /\ flight'[s].status # CREATED

\* C38: no two users share an email; of two concurrent register requests
\* with the same email at most one answers 201, and the one that loses
\* creates no user, no account and no refresh token
C38_ConcurrentRegister ==
  /\ [](\A u, v \in users : u.email = v.email => u = v)
  /\ [][/\ (SameEmailRegisters(flight') /\ \A s \in Unwatched : flight'[s].phase = "done")
            => Cardinality({s \in Unwatched : flight'[s].status = CREATED}) <= 1
         /\ \A s \in Unwatched :
              RegisterLoses(s) => UNCHANGED <<users, accounts, refreshTokens>>]_vars
C38_Witness ==
  /\ SameEmailRegisters(flight)
  /\ \E s \in Unwatched : /\ flight[s].phase = "done" /\ flight[s].status = CREATED
                        /\ flight[Other(s)].phase = "done"
                        /\ flight[Other(s)].status = INTERNAL_SERVER_ERROR
  /\ Cardinality({u \in users : u.email = flight[2].body.email}) = 1
  /\ Cardinality(accounts) = 1

\* the trades router answers a request in this step, with success
Serves ==
  /\ Answers
  /\ req'.user # Undef
  /\ resp'.status \in {HTTP_OK, NO_CONTENT}

\* C39: a request that authenticateJWT let through reads and mutates only
\* trades of accounts of its user: the trades a GET handler answers with are
\* of the user's accounts, and the live trade that an update, delete or close
\* request names is of one of the user's accounts
C39_OwnTradesOnly ==
  [][/\ (Serves /\ req'.route \in {"GET /live", "GET /closed"})
          => \A t \in resp'.trades : AccountOwner[t.accountId] = req'.user
     /\ (/\ Serves
         /\ req'.route \in {"PUT /live/:id", "DELETE /live/:id", "POST /live/:id/close"}
         /\ req'.id \in DOMAIN live)
          => AccountOwner[live[req'.id].accountId] = req'.user]_vars
====
